---- MODULE Spec2Model ----
(***************************************************************************)
(* Stream Deck integration for Home Assistant.                             *)
(*                                                                         *)
(* The repository holds two generations of the integration:                *)
(*   - streamdeck.py / old_streamdeck.py: the StreamDeck class, which      *)
(*     keeps the bindings in self._button_dict (uuid -> entity id) and     *)
(*     writes them to entry.data["buttons"];                               *)
(*   - __init__.py / select.py: the router built around the external       *)
(*     StreamDeckApi, which keeps the bindings only in the config entry    *)
(*     (uuid -> {entity_id: ...}) and the Last-Pressed Pointer in          *)
(*     hass.data[DOMAIN][f"{entry_id}_current"].                           *)
(* Both are modelled over one host (state store, event bus, service bus).  *)
(***************************************************************************)
EXTENDS Integers, Sequences, FiniteSets, TLC

(***************************************************************************)
(* Bounds of the model.                                                    *)
(***************************************************************************)
\* number of button UUIDs the device can report
NumButtons == 2

UUIDNames == <<"A", "B", "C", "D">>
UUIDs == {UUIDNames[i] : i \in 1 .. NumButtons}

(***************************************************************************)
(* Program constants (const.py).                                           *)
(***************************************************************************)
\* DOMAIN of const.py (DOMAIN is a keyword here)
SD_DOMAIN == "streamdeck"
TOGGLEABLE_PLATFORMS ==
    {"cover", "fan", "humidifier", "input_boolean", "light",
     "media_player", "remote", "siren", "switch", "vacuum"}
UP_DOWN_PLATFORMS == {"light"}
UP_DOWN_STEPS == 15
SELECT_OPTION_UP == ">>UP<<"
SELECT_OPTION_DOWN == ">>DOWN<<"
SELECT_DEFAULT_OPTIONS == {"", SELECT_OPTION_UP, SELECT_OPTION_DOWN}
\* __init__.py imports SELECT_OPTION_DELETE from const.py, which has no such
\* name in this tree: the marker a cleared binding stores
SELECT_OPTION_DELETE == ">>DELETE<<"
EVENT_SHORT_PRESS == "singleTap"
EVENT_LONG_PRESS == "longPress"

(***************************************************************************)
(* The host: Python's None, the entities of the state store.               *)
(***************************************************************************)
None == "None"

\* entity ids the host knows; the part before the dot is the domain
Entities == {"light.kitchen", "switch.fan", "binary_sensor.door"}
EntityDomain(e) ==
    CASE e = "light.kitchen" -> "light"
      [] e = "switch.fan" -> "switch"
      [] e = "binary_sensor.door" -> "binary_sensor"
      [] OTHER -> ""

\* a State object: state string, and the brightness attribute as <<b>> when
\* it is an int and <<>> when it is absent or None
NoState == [state |-> None, brightness |-> <<>>]
On(b) == [state |-> "on", brightness |-> b]
Off == [state |-> "off", brightness |-> <<>>]

EmptyDict == <<>>

\* dict | {k: v}  /  {**dict, k: v}
DictSet(d, k, v) == [x \in (DOMAIN d) \cup {k} |-> IF x = k THEN v ELSE d[x]]

VARIABLES
    states,          \* hass.states: entity id -> State or NoState
    sd_entry,        \* StreamDeck.entry is not None
    entry_buttons,   \* StreamDeck.entry.data["buttons"]: uuid -> entity id
    button_dict,     \* StreamDeck._button_dict
    SDInfo_buttons,  \* the class attribute SDInfo.buttons (keys)
    button_sensors,  \* hass.states of the StreamDeckButton binary sensors
    sd_selects,      \* streamdeck.py StreamDeckSelect._attr_current_option
    config_entry,    \* hass.config_entries.async_get_entry(entry_id) is not None
    buttons,         \* entry.data[CONF_BUTTONS]: uuid -> its entity_id
    current,         \* hass.data[DOMAIN][f"{entry_id}_current"]
    selects,         \* select.py StreamDeckSelect._attr_current_option
    api_state,       \* where the StreamDeckApi websocket loop of the entry is
    lastOp,          \* the handler that ran last, with its arguments
    issued,          \* service calls the last handler scheduled
    fired,           \* events the last handler fired on hass.bus
    pushed,          \* icon pushes (api.update_icon) the last handler scheduled
    raised,          \* exception that escaped the last handler, or None
    running,         \* StreamDeck._running
    tasks,           \* each websocket_loop task created by start(): where it is
    ws,              \* per task: its websocket is open
    stop_listener,   \* StreamDeck._stop_listener: None, or a handle, live or spent
    listeners,       \* state-change listeners registered on hass.bus
    stop_called,     \* per task: stop() was called since start() created it
    wire,            \* frames the device has sent that recv() has not returned yet
    handled,         \* the numbers of the frames on_message was called with, in order
    pending,         \* buttons with an icon POST (update_icon) in flight
    reconciling,     \* the add_entities call that awaits its get_info, if any
    posts,           \* the icon POSTs of update_icon in flight, in the order issued
    shown,           \* per button: the icon the device shows, as <<>> or <<POST>>
    renders          \* how many icons on_entity_state_change has rendered and posted

hostVars == <<states>>
sdVars == <<sd_entry, entry_buttons, button_dict, SDInfo_buttons, button_sensors, sd_selects>>
routerVars == <<config_entry, buttons, current, selects, api_state>>
outVars == <<lastOp, issued, fired, pushed, raised>>
supVars == <<running, tasks, ws, stop_listener, listeners, stop_called>>
pushVars == <<posts, shown, renders>>
sessVars == <<wire, handled, pending, reconciling, posts, shown, renders>>
vars == <<states, sd_entry, entry_buttons, button_dict, SDInfo_buttons, button_sensors,
          sd_selects, config_entry, buttons, current, selects, api_state,
          lastOp, issued, fired, pushed, raised,
          running, tasks, ws, stop_listener, listeners, stop_called,
          wire, handled, pending, reconciling, posts, shown, renders>>

\* no add_entities call is awaiting; "overtaken" when the last one found the
\* bindings changed while it awaited
NotReconciling(phase) ==
    [phase |-> phase, binary |-> FALSE, select |-> FALSE, snapshot |-> EmptyDict]

hass_states_get(e) == IF e \in DOMAIN states THEN states[e] ELSE NoState

(***************************************************************************)
(* Static attributes of the entities' State objects.                       *)
(***************************************************************************)
StateName(e) ==
    CASE e = "light.kitchen" -> "Kitchen"
      [] e = "switch.fan" -> "Fan"
      [] e = "binary_sensor.door" -> "Door"
      [] OTHER -> e
\* state.attributes.get("icon"): only the light carries one
StateIcon(e) == IF e = "light.kitchen" THEN "mdi:lightbulb" ELSE None
\* mdi_string.split(":", 1)[1] when it starts with "mdi:"
StripMdi(s) ==
    CASE s = "mdi:lightbulb" -> "lightbulb"
      [] s = "mdi:help" -> "help"
      [] OTHER -> s

(***************************************************************************)
(* streamdeck.py: wire types and the device client.                        *)
(***************************************************************************)
\* what the GET of the info endpoint can come back with: no response
\* (RequestException), a status other than 200, a body that is not JSON, a
\* JSON object that lacks a key of SDInfo (KeyError), JSON that is no object
\* or has a number, a string or null where SDInfo subscripts or iterates
\* (TypeError), or an info payload with its buttons
InfoFailures == {"RequestException", "status", "JSONDecodeError", "KeyError", "TypeError"}
InfoResponses ==
    {[kind |-> k, buttons |-> {}] : k \in InfoFailures}
    \cup {[kind |-> "info", buttons |-> D] : D \in SUBSET UUIDs}

\* SDInfo.__init__: self.buttons.update(...) writes the dict held by the class,
\* so the buttons of every payload decoded so far stay in it
SDInfo_init(acc, payload_buttons) == acc \cup payload_buttons

\* StreamDeck.get_info: an SDInfo, or False; of what SDInfo(rjson) raises
\* only KeyError is caught
get_info(res) ==
    IF res.kind = "info"
    THEN [ok |-> TRUE, buttons |-> SDInfo_init(SDInfo_buttons, res.buttons),
          raised |-> None]
    ELSE [ok |-> FALSE, buttons |-> SDInfo_buttons,
          raised |-> IF res.kind = "TypeError" THEN "TypeError" ELSE None]

\* StreamDeck.build_button_icon with the default bg_color, icon_color, color
build_button_icon(name, mdi_string, status) ==
    [rect_fill |-> "#000",
     icon_color |-> IF status = "on" THEN "#0e0"
                    ELSE IF status = "off" THEN "#e00" ELSE "fff",
     icon |-> StripMdi(mdi_string),
     text_top |-> status,
     text_bottom |-> name]

(***************************************************************************)
(* streamdeck.py: the Button Binding Store of the StreamDeck class.        *)
(***************************************************************************)
\* add_entities, lines 611-614 and 630-633: every button of info.buttons
\* that has no key yet gets the empty binding
add_new_buttons_once(dict, info_buttons) ==
    LET missing == info_buttons \ DOMAIN dict
        first == IF missing = {} THEN {} ELSE {CHOOSE u \in missing : TRUE}
    IN [u \in (DOMAIN dict) \cup first |-> IF u \in DOMAIN dict THEN dict[u] ELSE ""]
add_new_buttons_reset(dict, info_buttons) ==
    [u \in (DOMAIN dict) \cup info_buttons |-> ""]
add_new_buttons(dict, info_buttons) ==
    [u \in (DOMAIN dict) \cup info_buttons |-> IF u \in DOMAIN dict THEN dict[u] ELSE ""]

\* the entities handed to an AddEntitiesCallback: an entity whose unique id
\* is already registered is not added again;
\* `initial` maps each button to the state its new entity starts with
added_entities(have, initial) ==
    [u \in (DOMAIN have) \cup (DOMAIN initial) |->
        IF u \in DOMAIN have THEN have[u] ELSE initial[u]]

\* StreamDeck.add_entities(binary, select); binary and select say whether the
\* callback argument is given. The tests of lines 610 and 629 come down to that:
\* new_binary_sensors is set exactly when self._async_add_binary_sensors is.
add_entities(binary, select, res, read) ==
    LET info == get_info(res)
        reached == sd_entry /\ info.ok
        dict1 == IF binary THEN add_new_buttons(read, info.buttons) ELSE read
        dict2 == IF select THEN add_new_buttons(dict1, info.buttons) ELSE dict1
    IN /\ SDInfo_buttons' = IF sd_entry THEN info.buttons ELSE SDInfo_buttons
       /\ button_dict' = IF reached THEN dict2 ELSE button_dict
       /\ entry_buttons' = IF reached THEN dict2 ELSE entry_buttons
       /\ button_sensors' =
            IF reached /\ binary
            THEN added_entities(button_sensors, [u \in DOMAIN dict1 |-> "off"])
            ELSE button_sensors
       /\ sd_selects' =
            IF reached /\ select
            THEN added_entities(sd_selects, dict2)
            ELSE sd_selects
       /\ lastOp' = [op |-> "add_entities", binary |-> binary, select |-> select,
                     res |-> res, reached |-> reached,
                     again |-> /\ lastOp.op = "add_entities"
                               /\ lastOp.reached /\ reached
                               /\ lastOp.binary \/ lastOp.select
                               /\ binary \/ select
                               /\ lastOp.res = res]
       /\ issued' = <<>> /\ fired' = <<>> /\ pushed' = <<>>
       /\ raised' = IF sd_entry THEN info.raised ELSE None
       /\ UNCHANGED <<states, sd_entry>>
       /\ UNCHANGED routerVars
       /\ UNCHANGED supVars

\* add_entities from call to return, nothing else running meanwhile; line
\* 595 reads self.entry.data.get("buttons", {})
AddEntities(binary, select, res) ==
    /\ add_entities(binary, select, res, entry_buttons)
    /\ UNCHANGED sessVars

\* add_entities up to its await of get_info (line 585), on an object with an
\* entry; `snapshot` is what the entry holds at that moment
AddEntitiesCalled(binary, select) ==
    /\ reconciling.phase # "awaiting"
    /\ sd_entry
    /\ reconciling' = [phase |-> "awaiting", binary |-> binary, select |-> select,
                       snapshot |-> entry_buttons]
    /\ lastOp' = [op |-> "add_entities_called", binary |-> binary, select |-> select]
    /\ issued' = <<>> /\ fired' = <<>> /\ pushed' = <<>> /\ raised' = None
    /\ UNCHANGED <<wire, handled, pending>>
    /\ UNCHANGED pushVars
    /\ UNCHANGED <<hostVars, sdVars, routerVars, supVars>>

\* line 595 is reached after the await: it reads what the entry holds then
reconcile_read_at_call(snapshot, now) == snapshot
reconcile_read(snapshot, now) == now

\* get_info comes back and add_entities runs to its end, lines 586-657, with
\* no await on the way. "overtaken" records that the bindings were changed
\* while it awaited.
AddEntitiesResumes(res) ==
    /\ reconciling.phase = "awaiting"
    /\ add_entities(reconciling.binary, reconciling.select, res,
                    reconcile_read(reconciling.snapshot, entry_buttons))
    /\ reconciling' = NotReconciling(IF reconciling.snapshot # entry_buttons
                                     THEN "overtaken" ELSE "idle")
    /\ UNCHANGED <<wire, handled, pending>>
    /\ UNCHANGED pushVars

\* the options a StreamDeckSelect of streamdeck.py offers: the entity ids of
\* the enabled platforms, here light and switch
SdSelectOptions == {e \in Entities : EntityDomain(e) \in {"light", "switch"}}

\* StreamDeckSelect.async_select_option of streamdeck.py:
\* StreamDeck.set_button_entity(uuid, entity_id), then the current option
SetButtonEntity(uuid, entity_id) ==
    LET dict == DictSet(button_dict, uuid, entity_id)
        state == hass_states_get(entity_id)
        icon == build_button_icon(
                    StateName(entity_id),
                    IF StateIcon(entity_id) = None THEN "help" ELSE StateIcon(entity_id),
                    state.state)
    IN /\ uuid \in DOMAIN sd_selects
       /\ button_dict' = dict
       /\ entry_buttons' = IF sd_entry THEN dict ELSE entry_buttons
       /\ pushed' = IF sd_entry /\ state # NoState
                    THEN <<[uuid |-> uuid, svg |-> icon]>> ELSE <<>>
       /\ sd_selects' = [sd_selects EXCEPT ![uuid] = entity_id]
       /\ lastOp' = [op |-> "set_button_entity", uuid |-> uuid, option |-> entity_id]
       /\ issued' = <<>> /\ fired' = <<>> /\ raised' = None
       /\ UNCHANGED <<states, sd_entry, SDInfo_buttons, button_sensors>>
       /\ UNCHANGED routerVars
       /\ UNCHANGED supVars
       /\ UNCHANGED sessVars

\* StreamDeck.get_info called on its own: the probe of websocket_loop, the
\* config flow
GetInfo(res) ==
    /\ SDInfo_buttons' = get_info(res).buttons
    /\ lastOp' = [op |-> "get_info", res |-> res, ok |-> get_info(res).ok]
    /\ issued' = <<>> /\ fired' = <<>> /\ pushed' = <<>>
    /\ raised' = get_info(res).raised
    /\ UNCHANGED <<states, sd_entry, entry_buttons, button_dict, button_sensors, sd_selects>>
    /\ UNCHANGED routerVars
    /\ UNCHANGED supVars
    /\ UNCHANGED sessVars


(***************************************************************************)
(* __init__.py / select.py: bindings in the config entry, the router.      *)
(***************************************************************************)
\* entry.data.get(CONF_HOST, "")
Host == "deck.local"

\* the options a StreamDeckSelect offers: SELECT_DEFAULT_OPTIONS plus the
\* entity ids of the enabled platforms
SelectOptions == SELECT_DEFAULT_OPTIONS \cup Entities

\* the args of a decoded SDWebsocketMessage: {} , a str, or an SDInfo
ArgEmpty == [shape |-> "empty", str |-> "", buttons |-> {}]
ArgStr(x) == [shape |-> "str", str |-> x, buttons |-> {}]
ArgInfo(D) == [shape |-> "info", str |-> "", buttons |-> D]
\* a uuid no select was ever created for
UnknownUUID == "Z"
ArgStrings == UUIDs \cup {UnknownUUID}
Msg(event, args) == [event |-> event, args |-> args]
\* the decoded messages the router is handed: a press of either kind with
\* every shape of args, and the other tags with the shapes they come with
Messages ==
    {Msg(e, a) : e \in {EVENT_SHORT_PRESS, EVENT_LONG_PRESS},
                 a \in {ArgEmpty} \cup {ArgStr(x) : x \in ArgStrings}}
    \cup {Msg("status", ArgInfo(UUIDs)), Msg("status", ArgEmpty),
          Msg("keyDown", ArgStr(UUIDNames[1])), Msg("futureEvent", ArgStr(UUIDNames[1]))}

\* get_button_entity(hass, entry_id, uuid). The entry's "buttons" is always a
\* dict (config_flow.py line 93) whose values are {entity_id: str}.
get_button_entity(uuid) ==
    IF ~config_entry THEN None
    ELSE IF uuid \notin DOMAIN buttons THEN None
    ELSE buttons[uuid]

ServiceCall(domain, service, entity_id, brightness) ==
    [domain |-> domain, service |-> service, target |-> entity_id,
     brightness |-> brightness]

\* option_up(hass, state), option_down(hass, state): the calls they schedule
option_up(entity_id, state) ==
    IF EntityDomain(entity_id) \notin UP_DOWN_PLATFORMS THEN <<>>
    ELSE IF EntityDomain(entity_id) = "light"
    THEN IF Len(state.brightness) # 1 THEN <<>>
         ELSE <<ServiceCall("light", "turn_on", entity_id,
                            <<state.brightness[1] + UP_DOWN_STEPS>>)>>
    ELSE <<>>

option_down(entity_id, state) ==
    IF EntityDomain(entity_id) \notin UP_DOWN_PLATFORMS THEN <<>>
    ELSE IF EntityDomain(entity_id) = "light"
    THEN IF Len(state.brightness) # 1 THEN <<>>
         ELSE <<ServiceCall("light", "turn_on", entity_id,
                            <<state.brightness[1] - UP_DOWN_STEPS>>)>>
    ELSE <<>>

\* on_button_press without the redirection of lines 103-106
on_button_press_no_redirect(uuid) ==
    LET entity == get_button_entity(uuid)
        state == hass_states_get(entity)
    IN IF entity = None \/ state = NoState
       THEN [calls |-> <<>>, current |-> current]
       ELSE [calls |->
                IF EntityDomain(entity) \in TOGGLEABLE_PLATFORMS
                THEN <<ServiceCall(EntityDomain(entity), "toggle", entity, <<>>)>>
                ELSE <<>>,
             current |-> entity]

\* on_button_press toggling whatever entity it resolved, up and down included
on_button_press_toggle_all(uuid) ==
    LET entity == get_button_entity(uuid)
        base_entity == IF entity \in {SELECT_OPTION_UP, SELECT_OPTION_DOWN}
                       THEN current ELSE entity
        state == hass_states_get(base_entity)
    IN IF entity = None \/ base_entity = None \/ state = NoState
       THEN [calls |-> <<>>, current |-> current]
       ELSE [calls |->
                IF EntityDomain(base_entity) \in TOGGLEABLE_PLATFORMS
                THEN <<ServiceCall(EntityDomain(base_entity), "toggle",
                                   base_entity, <<>>)>>
                ELSE <<>>,
             current |-> base_entity]

\* on_button_press without line 127
on_button_press_no_pointer(uuid) ==
    LET entity == get_button_entity(uuid)
        state == hass_states_get(entity)
    IN [calls |->
            IF entity # None /\ state # NoState
               /\ EntityDomain(entity) \in TOGGLEABLE_PLATFORMS
            THEN <<ServiceCall(EntityDomain(entity), "toggle", entity, <<>>)>>
            ELSE <<>>,
        current |-> current]

\* on_button_press with line 127 inside the `if` of line 113: the pointer
\* follows only the presses that act
on_button_press_pointer_if_toggleable(uuid) ==
    LET entity == get_button_entity(uuid)
        base_entity == IF entity \in {SELECT_OPTION_UP, SELECT_OPTION_DOWN}
                       THEN current ELSE entity
        state == hass_states_get(base_entity)
        unchanged == [calls |-> <<>>, current |-> current]
    IN IF entity = None THEN unchanged
       ELSE IF base_entity = None THEN unchanged
       ELSE IF state = NoState THEN unchanged
       ELSE IF EntityDomain(base_entity) \notin TOGGLEABLE_PLATFORMS THEN unchanged
       ELSE [calls |->
                IF entity = SELECT_OPTION_UP THEN option_up(base_entity, state)
                ELSE IF entity = SELECT_OPTION_DOWN
                     THEN option_down(base_entity, state)
                ELSE <<ServiceCall(EntityDomain(base_entity), "toggle",
                                   base_entity, <<>>)>>,
             current |-> base_entity]

\* on_button_press storing `entity` where line 127 stores base_entity
on_button_press_stores_binding(uuid) ==
    LET entity == get_button_entity(uuid)
        base_entity == IF entity \in {SELECT_OPTION_UP, SELECT_OPTION_DOWN}
                       THEN current ELSE entity
        state == hass_states_get(base_entity)
        unchanged == [calls |-> <<>>, current |-> current]
    IN IF entity = None THEN unchanged
       ELSE IF base_entity = None THEN unchanged
       ELSE IF state = NoState THEN unchanged
       ELSE [calls |->
                IF EntityDomain(base_entity) \in TOGGLEABLE_PLATFORMS
                THEN IF entity = SELECT_OPTION_UP THEN option_up(base_entity, state)
                     ELSE IF entity = SELECT_OPTION_DOWN
                          THEN option_down(base_entity, state)
                     ELSE <<ServiceCall(EntityDomain(base_entity), "toggle",
                                        base_entity, <<>>)>>
                ELSE <<>>,
             current |-> entity]

\* async_setup_entry.on_button_press(uuid): the calls it schedules and the
\* pointer it leaves. api is bound before any frame can arrive.
on_button_press(uuid) ==
    LET entity == get_button_entity(uuid)
        base_entity == IF entity \in {SELECT_OPTION_UP, SELECT_OPTION_DOWN}
                       THEN current ELSE entity
        state == hass_states_get(base_entity)
        unchanged == [calls |-> <<>>, current |-> current]
    IN IF entity = None THEN unchanged
       ELSE IF base_entity = None THEN unchanged
       ELSE IF state = NoState THEN unchanged
       ELSE [calls |->
                IF EntityDomain(base_entity) \in TOGGLEABLE_PLATFORMS
                THEN IF entity = SELECT_OPTION_UP THEN option_up(base_entity, state)
                     ELSE IF entity = SELECT_OPTION_DOWN
                          THEN option_down(base_entity, state)
                     ELSE <<ServiceCall(EntityDomain(base_entity), "toggle",
                                        base_entity, <<>>)>>
                ELSE <<>>,
             current |-> base_entity]

\* the long-press branch without the return of lines 138-139
on_long_press_always(uuid) == get_button_entity(uuid)

\* the long-press branch of on_ws_message
on_long_press(uuid) ==
    LET entity == get_button_entity(uuid)
    IN IF entity = None THEN current ELSE entity

\* the publication moved behind the dispatch, where the return of line 139
\* skips it
ws_published_at_end(msg) ==
    IF /\ msg.event = EVENT_LONG_PRESS
       /\ msg.args.shape = "str"
       /\ get_button_entity(msg.args.str) = None
    THEN <<>>
    ELSE <<[event_type |-> SD_DOMAIN \o "_" \o msg.event, host |-> Host,
            data |-> msg.args]>>

\* on_ws_message, lines 131-133:
\* hass.bus.async_fire(f"{DOMAIN}_{msg.event}", {host, data})
ws_published(msg) ==
    <<[event_type |-> SD_DOMAIN \o "_" \o msg.event, host |-> Host, data |-> msg.args]>>

\* the dispatch with the event tag not looked at: every frame that names a
\* button is taken for a short press
ws_dispatch_any_tag(msg) ==
    IF msg.args.shape = "str"
    THEN on_button_press(msg.args.str)
    ELSE [calls |-> <<>>, current |-> current]

\* what on_ws_message does after publishing: calls scheduled, pointer left
ws_dispatch(msg) ==
    IF msg.event = EVENT_SHORT_PRESS /\ msg.args.shape = "str"
    THEN on_button_press(msg.args.str)
    ELSE IF msg.event = EVENT_LONG_PRESS /\ msg.args.shape = "str"
    THEN [calls |-> <<>>, current |-> on_long_press(msg.args.str)]
    ELSE [calls |-> <<>>, current |-> current]

\* the handler that ran last was a long-press frame for a button with a
\* stored binding
long_press_took_effect ==
    /\ lastOp.op = "on_ws_message"
    /\ lastOp.event = EVENT_LONG_PRESS
    /\ lastOp.args.shape = "str"
    /\ get_button_entity(lastOp.args.str) # None

\* async_setup_entry.on_ws_message(msg)
OnWsMessage(msg) ==
    LET done == ws_dispatch(msg)
    IN /\ fired' = ws_published(msg)
       /\ issued' = done.calls
       /\ current' = done.current
       /\ lastOp' = [op |-> "on_ws_message", event |-> msg.event, args |-> msg.args,
                     after_long_press |-> long_press_took_effect]
       /\ pushed' = <<>> /\ raised' = None
       /\ UNCHANGED <<config_entry, buttons, selects, api_state>>
       /\ UNCHANGED hostVars
       /\ UNCHANGED sdVars
       /\ UNCHANGED supVars
       /\ UNCHANGED sessVars

\* update_button_icon that goes on to line 371 with a state that is None
update_button_icon_stale(dict, uuid) ==
    LET entity == IF uuid \in DOMAIN dict THEN dict[uuid] ELSE None
        state == hass_states_get(entity)
        Push(svg) == <<[uuid |-> uuid, svg |-> svg]>>
    IN IF entity = None \/ entity = "" \/ entity = SELECT_OPTION_DELETE
       THEN Push([rect_fill |-> "#a00", icon_color |-> "#fff", icon |-> None,
                  text_top |-> uuid, text_bottom |-> uuid])
       ELSE IF entity = SELECT_OPTION_UP
       THEN Push([rect_fill |-> "#000", icon_color |-> "#fff", icon |-> "plus-box",
                  text_top |-> "", text_bottom |-> ""])
       ELSE IF entity = SELECT_OPTION_DOWN
       THEN Push([rect_fill |-> "#000", icon_color |-> "#fff", icon |-> "minus-box",
                  text_top |-> "", text_bottom |-> ""])
       ELSE Push([rect_fill |-> "#000", icon_color |-> "#000", icon |-> "help",
                  text_top |-> state.state, text_bottom |-> StateName(entity)])

\* update_button_icon(hass, entry_id, uuid), reading the bindings `dict`:
\* the icon pushes it schedules. The three text lines of the placeholder are
\* the first groups of the uuid.
update_button_icon(dict, uuid) ==
    LET entity == IF uuid \in DOMAIN dict THEN dict[uuid] ELSE None
        state == hass_states_get(entity)
        icon_color == IF state.state = "on" THEN "#0e0"
                      ELSE IF state.state = "off" THEN "#e00" ELSE "#000"
        mdi_string == IF StateIcon(entity) = None THEN "mdi:help" ELSE StateIcon(entity)
        Push(svg) == <<[uuid |-> uuid, svg |-> svg]>>
    IN IF entity = None \/ entity = "" \/ entity = SELECT_OPTION_DELETE
       THEN Push([rect_fill |-> "#a00", icon_color |-> "#fff", icon |-> None,
                  text_top |-> uuid, text_bottom |-> uuid])
       ELSE IF entity = SELECT_OPTION_UP
       THEN Push([rect_fill |-> "#000", icon_color |-> "#fff", icon |-> "plus-box",
                  text_top |-> "", text_bottom |-> ""])
       ELSE IF entity = SELECT_OPTION_DOWN
       THEN Push([rect_fill |-> "#000", icon_color |-> "#fff", icon |-> "minus-box",
                  text_top |-> "", text_bottom |-> ""])
       ELSE IF state = NoState THEN <<>>
       ELSE Push([rect_fill |-> "#000", icon_color |-> icon_color,
                  icon |-> StripMdi(mdi_string),
                  text_top |-> state.state, text_bottom |-> StateName(entity)])

\* the entity ids update_button_icon passes to hass.states.get (line 366):
\* none when it returned at line 346, 355 or 363
states_get_calls_first(dict, uuid) ==
    IF uuid \in DOMAIN dict THEN {dict[uuid]} ELSE {}
states_get_calls(dict, uuid) ==
    LET entity == IF uuid \in DOMAIN dict THEN dict[uuid] ELSE None
    IN IF entity = None \/ entity = "" \/ entity = SELECT_OPTION_DELETE THEN {}
       ELSE IF entity = SELECT_OPTION_UP THEN {}
       ELSE IF entity = SELECT_OPTION_DOWN THEN {}
       ELSE {entity}

\* {**entry.data[CONF_BUTTONS], **{uuid: {ATTR_ENTITY_ID: option}}}
select_merge_only(dict, uuid, option) == [u \in {uuid} |-> option]
select_merge(dict, uuid, option) == DictSet(dict, uuid, option)

\* StreamDeckSelect.async_select_option(option) of select.py / __init__.py
AsyncSelectOption(uuid, option) ==
    LET data == select_merge(buttons, uuid, option)
    IN /\ uuid \in DOMAIN selects
       /\ selects' = [selects EXCEPT ![uuid] = option]
       /\ buttons' = IF config_entry THEN data ELSE buttons
       /\ pushed' = IF config_entry THEN update_button_icon(data, uuid) ELSE <<>>
       /\ lastOp' = [op |-> "async_select_option", uuid |-> uuid, option |-> option,
                      lookups |-> IF config_entry THEN states_get_calls(data, uuid)
                                  ELSE {}]
       /\ issued' = <<>> /\ fired' = <<>> /\ raised' = None
       /\ UNCHANGED <<config_entry, current, api_state>>
       /\ UNCHANGED hostVars
       /\ UNCHANGED sdVars
       /\ UNCHANGED supVars
       /\ UNCHANGED sessVars

\* the host removes the config entry: async_get_entry(entry_id) is None from now on
RemoveEntry ==
    /\ config_entry
    /\ config_entry' = FALSE
    /\ lastOp' = [op |-> "remove_entry"]
    /\ issued' = <<>> /\ fired' = <<>> /\ pushed' = <<>> /\ raised' = None
    /\ UNCHANGED <<buttons, current, selects, api_state>>
    /\ UNCHANGED hostVars
    /\ UNCHANGED sdVars
    /\ UNCHANGED supVars
    /\ UNCHANGED sessVars

\* the host's state store takes a new state for an entity
HostSetState(e, s) ==
    /\ states[e] # s
    /\ states' = [states EXCEPT ![e] = s]
    /\ lastOp' = [op |-> "state_set", entity_id |-> e]
    /\ issued' = <<>> /\ fired' = <<>> /\ pushed' = <<>> /\ raised' = None
    /\ UNCHANGED routerVars
    /\ UNCHANGED sdVars
    /\ UNCHANGED supVars
    /\ UNCHANGED sessVars

(***************************************************************************)
(* __init__.py / select.py: rendering on setup, on connect, on a state     *)
(* change.                                                                 *)
(***************************************************************************)
\* the uuids of S one after the other. A dict's own order is the order of
\* insertion, which the model does not keep; UUIDNames stands in for it.
InOrder(S) ==
    SelectSeq([i \in 1 .. NumButtons |-> UUIDNames[i]], LAMBDA u : u \in S)

\* update_button_icon called for each uuid of `seq` in turn: all the pushes
update_each(dict, seq) ==
    LET pushing == SelectSeq(seq, LAMBDA u : update_button_icon(dict, u) # <<>>)
    IN [i \in 1 .. Len(pushing) |-> update_button_icon(dict, pushing[i])[1]]

\* ... and all the entity ids handed to hass.states.get
lookups_each(dict, S) == UNION {states_get_calls(dict, u) : u \in S}

\* init_all_buttons(hass, entry_id): the uuids update_button_icon is called for
init_all_buttons_but_first(entry, dict) ==
    IF entry /\ DOMAIN dict # {} THEN Tail(InOrder(DOMAIN dict)) ELSE <<>>
init_all_buttons(entry, dict) ==
    IF entry THEN InOrder(DOMAIN dict) ELSE <<>>

\* async_setup_entry of select.py: a select for every button of the info
\* payload, its current option the stored binding or ""; the icon of every
\* button whose stored binding is not "" is rendered
SelectSetup(res) ==
    LET initial == [u \in res.buttons |->
                        IF u \in DOMAIN buttons THEN buttons[u] ELSE ""]
        bound == {u \in res.buttons : initial[u] # ""}
    IN /\ config_entry
       /\ IF res.kind = "info"
          THEN /\ selects' = initial
               /\ pushed' = update_each(buttons, InOrder(bound))
               /\ lastOp' = [op |-> "select_setup", uuids |-> bound,
                             lookups |-> lookups_each(buttons, bound)]
          ELSE /\ selects' = selects
               /\ pushed' = <<>>
               /\ lastOp' = [op |-> "select_setup", uuids |-> {}, lookups |-> {}]
       /\ issued' = <<>> /\ fired' = <<>> /\ raised' = None
       /\ UNCHANGED <<config_entry, buttons, current, api_state>>
       /\ UNCHANGED hostVars
       /\ UNCHANGED sdVars
       /\ UNCHANGED supVars
       /\ UNCHANGED sessVars

\* The websocket loop of StreamDeckApi finds the device and connects: it
\* calls on_ws_connect, which is init_all_buttons (__init__.py line 147), once.
ApiConnected ==
    LET uuids == init_all_buttons(config_entry, buttons)
    IN /\ api_state = "Probing"
       /\ api_state' = "Connected"
       /\ pushed' = update_each(buttons, uuids)
       /\ lastOp' = [op |-> "on_ws_connect", after |-> lastOp.op,
                     lookups |-> lookups_each(buttons, {uuids[i] : i \in 1 .. Len(uuids)})]
       /\ issued' = <<>> /\ fired' = <<>> /\ raised' = None
       /\ UNCHANGED <<config_entry, buttons, current, selects>>
       /\ UNCHANGED hostVars
       /\ UNCHANGED sdVars
       /\ UNCHANGED supVars
       /\ UNCHANGED sessVars

\* The connection of the StreamDeckApi loop fails: it goes back to probing.
ApiTransportFailure ==
    /\ api_state = "Connected"
    /\ api_state' = "Probing"
    /\ lastOp' = [op |-> "transport_failure"]
    /\ issued' = <<>> /\ fired' = <<>> /\ pushed' = <<>> /\ raised' = None
    /\ UNCHANGED <<config_entry, buttons, current, selects>>
    /\ UNCHANGED hostVars
    /\ UNCHANGED sdVars
    /\ UNCHANGED supVars
    /\ UNCHANGED sessVars

\* on_entity_state_change(hass, entry_id, event) of __init__.py for an event
\* that carries entity_id. Line 416 reads hass.data[DOMAIN]["<entry_id>-select"],
\* a key no line of the component writes: KeyError, before line 430 is reached.
OnEntityStateChange(entity_id) ==
    /\ raised' = IF config_entry THEN "KeyError" ELSE None
    /\ pushed' = <<>>
    /\ lastOp' = [op |-> "on_entity_state_change", entity_id |-> entity_id]
    /\ issued' = <<>> /\ fired' = <<>>
    /\ UNCHANGED routerVars
    /\ UNCHANGED hostVars
    /\ UNCHANGED sdVars
    /\ UNCHANGED supVars
    /\ UNCHANGED sessVars

\* StreamDeck.on_entity_state_change(event) of streamdeck.py, the listener
\* start() registers: one icon, pushed to every button bound to the entity
on_entity_state_change_sd(entity_id) ==
    LET state == hass_states_get(entity_id)
        icon == build_button_icon(
                    StateName(entity_id),
                    IF StateIcon(entity_id) = None THEN "help" ELSE StateIcon(entity_id),
                    state.state)
        bound == InOrder({u \in DOMAIN button_dict : button_dict[u] = entity_id})
    IN /\ pushed' = IF state = NoState THEN <<>>
                    ELSE [i \in 1 .. Len(bound) |-> [uuid |-> bound[i], svg |-> icon]]
       /\ lastOp' = [op |-> "sd_on_entity_state_change", entity_id |-> entity_id]
       /\ issued' = <<>> /\ fired' = <<>> /\ raised' = None
       /\ UNCHANGED routerVars
       /\ UNCHANGED hostVars
       /\ UNCHANGED sdVars
       /\ UNCHANGED supVars

\* the handler seen as one step, its POSTs done
OnEntityStateChangeSd(entity_id) ==
    /\ on_entity_state_change_sd(entity_id)
    /\ UNCHANGED sessVars

(***************************************************************************)
(* config_flow.py / __init__.py: creating, setting up, unloading an entry. *)
(***************************************************************************)
\* setups of the entry that go through, all in all
MaxSetups == 2

\* StreamDeckConfigFlow.async_step_user with a host whose MAC is known: the
\* form again with cannot_connect when the info probe fails, the abort when an
\* entry with the MAC exists, else an entry with "buttons": {}
AsyncStepUser(res) ==
    LET outcome == IF res.kind # "info" THEN "cannot_connect"
                   ELSE IF config_entry THEN "already_configured"
                   ELSE "create_entry"
    IN /\ config_entry' = (config_entry \/ outcome = "create_entry")
       /\ buttons' = IF outcome = "create_entry" THEN EmptyDict ELSE buttons
       /\ lastOp' = [op |-> "async_step_user", outcome |-> outcome]
       /\ issued' = <<>> /\ fired' = <<>> /\ pushed' = <<>> /\ raised' = None
       /\ UNCHANGED <<current, selects, api_state>>
       /\ UNCHANGED hostVars
       /\ UNCHANGED sdVars
       /\ UNCHANGED supVars
       /\ UNCHANGED sessVars

\* async_setup_entry, line 157: isinstance(info, bool)
probe_failed_never(res) == FALSE
probe_failed(res) == res.kind # "info"

\* async_setup_entry of __init__.py on an entry that is not set up. res is
\* what its own get_info comes back with, res2 what the get_info of the
\* select platform (line 161, select.py line 33) comes back with.
AsyncSetupEntry(res, res2) ==
    LET initial == [u \in res2.buttons |->
                        IF u \in DOMAIN buttons THEN buttons[u] ELSE ""]
        bound == {u \in res2.buttons : initial[u] # ""}
        selected == res2.kind = "info"
    IN /\ config_entry /\ api_state = "Stopped"
       /\ current' = None
       /\ IF probe_failed(res)
          THEN /\ raised' = "ConfigEntryNotReady"
               /\ pushed' = <<>>
               /\ UNCHANGED <<selects, api_state, listeners>>
          ELSE /\ listeners < MaxSetups
               /\ raised' = None
               /\ selects' = IF selected THEN initial ELSE EmptyDict
               /\ pushed' = IF selected THEN update_each(buttons, InOrder(bound))
                            ELSE <<>>
               /\ api_state' = "Probing"
               /\ listeners' = listeners + 1
       /\ lastOp' = [op |-> "async_setup_entry", res |-> res.kind]
       /\ issued' = <<>> /\ fired' = <<>>
       /\ UNCHANGED <<config_entry, buttons>>
       /\ UNCHANGED <<running, tasks, ws, stop_listener, stop_called>>
       /\ UNCHANGED hostVars
       /\ UNCHANGED sdVars
       /\ UNCHANGED sessVars

\* async_unload_entry: the loop of the api is told to stop, the selects are
\* unloaded. The listener of line 166 has no handle and stays on the bus.
AsyncUnloadEntry ==
    /\ config_entry /\ api_state # "Stopped"
    /\ api_state' = "Stopped"
    /\ selects' = EmptyDict
    /\ lastOp' = [op |-> "async_unload_entry"]
    /\ issued' = <<>> /\ fired' = <<>> /\ pushed' = <<>> /\ raised' = None
    /\ UNCHANGED <<config_entry, buttons, current>>
    /\ UNCHANGED hostVars
    /\ UNCHANGED sdVars
    /\ UNCHANGED supVars
    /\ UNCHANGED sessVars

\* the bus delivers a state_changed event with an entity_id: the lambda of
\* line 166 runs on_entity_state_change, once a setup has registered it
StateChangedEvent(entity_id) ==
    /\ listeners > 0
    /\ OnEntityStateChange(entity_id)

(***************************************************************************)
(* streamdeck.py: the message handler of the StreamDeck class.             *)
(***************************************************************************)
\* what websocket.recv() hands to on_message: text json.loads rejects, an
\* object SDWebsocketMessage or SDInfo raises KeyError on, an object whose
\* args is neither {} nor a str nor a dict (dict.__init__ raises TypeError),
\* and the frames that decode to a message
Frame(kind, event, args) == [kind |-> kind, event |-> event, args |-> args]
Frames ==
    {Frame(k, "", ArgEmpty) : k \in {"JSONDecodeError", "KeyError", "TypeError"}}
    \cup {Frame("message", e, a) :
            e \in {"keyDown", "keyUp"},
            a \in {ArgEmpty} \cup {ArgStr(x) : x \in ArgStrings}}
    \cup {Frame("message", "status", ArgInfo(D)) : D \in {{}, UUIDs}}
    \cup {Frame("message", "futureEvent", ArgStr(UUIDNames[1]))}

\* the values a JSON frame can carry under "args": none, {}, a string, an
\* info object, an object that lacks a key of the info, a list, null, a
\* number
ArgAbsent == [shape |-> "absent", str |-> "", buttons |-> {}]
ArgOther(shape) == [shape |-> shape, str |-> "", buttons |-> {}]
RawArgs ==
    {ArgAbsent, ArgEmpty}
    \cup {ArgStr(x) : x \in ArgStrings \cup {""}}
    \cup {ArgInfo(D) : D \in SUBSET UUIDs}
    \cup {ArgOther(sh) : sh \in {"dict", "list", "null", "number"}}

\* what json.loads hands to SDWebsocketMessage: an object with or without
\* "event" and "args", or a value that is no object
EventTags == {"keyDown", "keyUp", "status", EVENT_SHORT_PRESS, EVENT_LONG_PRESS, "futureEvent"}
RawObj(top, has_event, event, args) ==
    [top |-> top, has_event |-> has_event, event |-> event, args |-> args]
RawObjects ==
    {RawObj("object", TRUE, e, a) : e \in EventTags, a \in RawArgs}
    \cup {RawObj("object", FALSE, "", a) : a \in RawArgs}
    \cup {RawObj(top, FALSE, "", ArgAbsent) : top \in {"list", "null", "number", "string"}}

\* SDWebsocketMessage(obj): obj["event"], then obj["args"] compared with {},
\* tested for str, and handed to SDInfo otherwise; the frame on_message goes
\* on with, or the exception raised
SDWebsocketMessage(obj) ==
    IF obj.top # "object" THEN Frame("TypeError", "", ArgEmpty)
    ELSE IF ~obj.has_event THEN Frame("KeyError", "", ArgEmpty)
    ELSE IF obj.args.shape = "absent" THEN Frame("KeyError", "", ArgEmpty)
    ELSE IF obj.args.shape = "empty" THEN Frame("message", obj.event, ArgEmpty)
    ELSE IF obj.args.shape = "str" THEN Frame("message", obj.event, obj.args)
    ELSE IF obj.args.shape = "info" THEN Frame("message", obj.event, obj.args)
    ELSE IF obj.args.shape = "dict" THEN Frame("KeyError", "", ArgEmpty)
    ELSE Frame("TypeError", "", ArgEmpty)

\* a frame is decoded: SDWebsocketMessage(datajson) of on_message, line 424
DecodeMessage(obj) ==
    LET frame == SDWebsocketMessage(obj)
    IN /\ lastOp' = [op |-> "SDWebsocketMessage", obj |-> obj, frame |-> frame]
       /\ raised' = IF frame.kind = "message" THEN None ELSE frame.kind
       /\ SDInfo_buttons' = IF frame.kind = "message" /\ frame.args.shape = "info"
                            THEN SDInfo_init(SDInfo_buttons, frame.args.buttons)
                            ELSE SDInfo_buttons
       /\ issued' = <<>> /\ fired' = <<>> /\ pushed' = <<>>
       /\ UNCHANGED <<states, sd_entry, entry_buttons, button_dict, button_sensors,
                      sd_selects>>
       /\ UNCHANGED <<routerVars, supVars, sessVars>>

\* current_state.state flipped between STATE_ON and STATE_OFF
flipped(state) ==
    IF state.state = "on" THEN [state EXCEPT !.state = "off"]
    ELSE IF state.state = "off" THEN [state EXCEPT !.state = "on"]
    ELSE state

\* on_button_change without the return of lines 376-378: the release acts
\* like the press
on_button_change_both_edges(args, state) ==
    LET uuid == args.str
        unchanged == [sensors |-> button_sensors, states |-> states]
        sensors == [button_sensors EXCEPT ![uuid] = state]
        entity_id == button_dict[uuid]
    IN IF ~sd_entry THEN unchanged
       ELSE IF args.shape # "str" THEN unchanged
       ELSE IF uuid \notin DOMAIN button_sensors THEN unchanged
       ELSE IF EntityDomain(entity_id) # "switch"
       THEN [sensors |-> sensors, states |-> states]
       ELSE IF hass_states_get(entity_id) = NoState
       THEN [sensors |-> sensors, states |-> states]
       ELSE [sensors |-> sensors,
             states |-> [states EXCEPT ![entity_id] = flipped(states[entity_id])]]

\* StreamDeck.on_button_change(uuid, state): the sensor states and the entity
\* states it leaves. A sensor exists only for a key of _button_dict.
on_button_change(args, state) ==
    LET uuid == args.str
        unchanged == [sensors |-> button_sensors, states |-> states]
        sensors == [button_sensors EXCEPT ![uuid] = state]
        entity_id == button_dict[uuid]
    IN IF ~sd_entry THEN unchanged
       ELSE IF args.shape # "str" THEN unchanged
       ELSE IF uuid \notin DOMAIN button_sensors THEN unchanged
       ELSE IF state = "off" THEN [sensors |-> sensors, states |-> states]
       ELSE IF EntityDomain(entity_id) # "switch"
       THEN [sensors |-> sensors, states |-> states]
       ELSE IF hass_states_get(entity_id) = NoState
       THEN [sensors |-> sensors, states |-> states]
       ELSE [sensors |-> sensors,
             states |-> [states EXCEPT ![entity_id] = flipped(states[entity_id])]]

\* on_message with the event fired after the match statement, where a frame
\* for a button without a sensor is not published
on_message_published_at_end(frame) ==
    IF frame.kind # "message" THEN <<>>
    ELSE IF /\ frame.event \in {"keyDown", "keyUp"}
            /\ frame.args.str \notin DOMAIN button_sensors
    THEN <<>>
    ELSE <<[event_type |-> "streamdeck-" \o frame.event, host |-> Host,
            data |-> frame.args]>>

\* on_message, lines 431-433: the event fired for a decoded frame
on_message_published(frame) ==
    IF frame.kind # "message" THEN <<>>
    ELSE <<[event_type |-> "streamdeck-" \o frame.event, host |-> Host,
            data |-> frame.args]>>

\* StreamDeck.on_message(msg): everything it does to the host and the object
on_message(frame) ==
    LET decoded == frame.kind = "message"
        done == IF decoded /\ frame.event = "keyDown"
                THEN on_button_change(frame.args, "on")
                ELSE IF decoded /\ frame.event = "keyUp"
                THEN on_button_change(frame.args, "off")
                ELSE [sensors |-> button_sensors, states |-> states]
    IN /\ fired' = on_message_published(frame)
       /\ raised' = IF frame.kind = "TypeError" THEN "TypeError" ELSE None
       /\ SDInfo_buttons' =
            IF decoded /\ frame.args.shape = "info"
            THEN SDInfo_init(SDInfo_buttons, frame.args.buttons)
            ELSE SDInfo_buttons
       /\ button_sensors' = done.sensors
       /\ states' = done.states
       /\ issued' = <<>> /\ pushed' = <<>>
       /\ UNCHANGED <<sd_entry, entry_buttons, button_dict, sd_selects>>
       /\ UNCHANGED routerVars

\* StreamDeck.on_message(msg) called on its own
OnMessage(frame) ==
    /\ on_message(frame)
    /\ lastOp' = [op |-> "on_message", kind |-> frame.kind,
                  event |-> frame.event, args |-> frame.args]
    /\ UNCHANGED supVars
    /\ UNCHANGED sessVars

(***************************************************************************)
(* streamdeck.py: the connection supervisor, websocket_loop / start / stop.*)
(***************************************************************************)
\* how many times start() is followed through
MaxTasks == 2
Tasks == 1 .. MaxTasks

\* where a websocket_loop task is: not created, created and not yet run,
\* awaiting get_info, awaiting connect, awaiting websocket.recv, awaiting
\* websocket.close, returned, ended by an exception
TaskPositions ==
    {"none", "created", "get_info", "connect", "recv", "close", "done", "raised"}

\* what `async with connect(...)` comes back with: a websocket, a
\* WebSocketException (handshake refused, invalid URI), or the OSError that
\* the event loop's create_connection raises when the TCP connection fails
ConnectOutcomes == {"connected", "WebSocketException", "OSError"}

\* the test of `while self._running` of line 449, which starts the next
\* probe or lets the coroutine return
loop_test(is_running) == IF is_running THEN "get_info" ELSE "done"

\* the test of `while self._running` of line 456, which starts the next
\* receive or goes on to websocket.close()
inner_loop_test(is_running) == IF is_running THEN "recv" ELSE "close"

SupStep(i, step) == [op |-> "websocket_loop", task |-> i, step |-> step]

\* StreamDeck.start(): the f-string of line 491 reads self.entry.entry_id
Start ==
    /\ \E i \in Tasks :
        /\ tasks[i] = "none"
        /\ \A j \in Tasks : j < i => tasks[j] # "none"
        /\ IF sd_entry
           THEN /\ tasks' = [tasks EXCEPT ![i] = "created"]
                /\ stop_listener' = "live"
                /\ listeners' = listeners + 1
                /\ raised' = None
           ELSE /\ raised' = "AttributeError"
                /\ UNCHANGED <<tasks, stop_listener, listeners>>
    /\ lastOp' = [op |-> "start"]
    /\ issued' = <<>> /\ fired' = <<>> /\ pushed' = <<>>
    /\ UNCHANGED <<running, ws, stop_called>>
    /\ UNCHANGED <<hostVars, sdVars, routerVars>>
    /\ UNCHANGED sessVars

\* StreamDeck.stop(): self._running = False, then self._stop_listener(),
\* which is None until start() has set it. A handle called a second time
\* finds its listener gone; the host logs that and goes on.
Stop ==
    /\ running' = FALSE
    /\ stop_called' = [i \in Tasks |-> stop_called[i] \/ tasks[i] # "none"]
    /\ raised' = IF stop_listener = None THEN "TypeError" ELSE None
    /\ stop_listener' = IF stop_listener = None THEN None ELSE "spent"
    /\ listeners' = IF stop_listener = "live" THEN listeners - 1 ELSE listeners
    /\ lastOp' = [op |-> "stop"]
    /\ issued' = <<>> /\ fired' = <<>> /\ pushed' = <<>>
    /\ UNCHANGED <<tasks, ws>>
    /\ UNCHANGED <<hostVars, sdVars, routerVars>>
    /\ UNCHANGED sessVars

\* websocket_loop up to its first await: line 448 sets the flag, line 449
\* tests it, line 450 starts the probe
TaskBegin(i) ==
    /\ tasks[i] = "created"
    /\ running' = TRUE
    /\ tasks' = [tasks EXCEPT ![i] = loop_test(TRUE)]
    /\ lastOp' = SupStep(i, "begin")
    /\ issued' = <<>> /\ fired' = <<>> /\ pushed' = <<>> /\ raised' = None
    /\ UNCHANGED <<ws, stop_listener, listeners, stop_called>>
    /\ UNCHANGED <<hostVars, sdVars, routerVars>>
    /\ UNCHANGED sessVars

\* get_info() returns: an SDInfo starts the connect, False goes back to the
\* test of line 449
ProbeReturns(i, res) ==
    LET info == get_info(res)
    IN /\ tasks[i] = "get_info"
       /\ SDInfo_buttons' = info.buttons
       /\ tasks' = [tasks EXCEPT ![i] = IF info.raised # None THEN "raised"
                                        ELSE IF info.ok THEN "connect"
                                        ELSE loop_test(running)]
       /\ lastOp' = [op |-> "websocket_loop", task |-> i, step |-> "probe",
                     ok |-> info.ok]
       /\ issued' = <<>> /\ fired' = <<>> /\ pushed' = <<>>
       /\ raised' = info.raised
       /\ UNCHANGED <<running, ws, stop_listener, listeners, stop_called>>
       /\ UNCHANGED <<states, sd_entry, entry_buttons, button_dict, button_sensors,
                      sd_selects>>
       /\ UNCHANGED routerVars
       /\ UNCHANGED sessVars

\* connect(...) returns: the websocket is open and line 456 tests the flag;
\* a WebSocketException is caught at line 462; anything else ends the task
ConnectReturns(i, outcome) ==
    /\ tasks[i] = "connect"
    /\ tasks' = [tasks EXCEPT ![i] =
            IF outcome = "connected" THEN inner_loop_test(running)
            ELSE IF outcome = "WebSocketException" THEN loop_test(running)
            ELSE "raised"]
    /\ ws' = [ws EXCEPT ![i] = (outcome = "connected")]
    /\ raised' = IF outcome = "OSError" THEN "OSError" ELSE None
    /\ lastOp' = [op |-> "websocket_loop", task |-> i, step |-> "connect",
                  outcome |-> outcome]
    /\ issued' = <<>> /\ fired' = <<>> /\ pushed' = <<>>
    /\ UNCHANGED <<running, stop_listener, listeners, stop_called>>
    /\ UNCHANGED <<hostVars, sdVars, routerVars>>
    /\ UNCHANGED sessVars

\* websocket.recv() returns a frame and on_message handles it: an exception
\* out of on_message is no WebSocketException, it leaves the `async with`
\* (which closes the websocket) and ends the task
recv(i, frame) ==
    /\ tasks[i] = "recv"
    /\ on_message(frame)
    /\ tasks' = [tasks EXCEPT ![i] = IF frame.kind = "TypeError" THEN "raised"
                                     ELSE inner_loop_test(running)]
    /\ ws' = [ws EXCEPT ![i] = (frame.kind # "TypeError")]
    /\ lastOp' = [op |-> "websocket_loop", task |-> i, step |-> "recv",
                  kind |-> frame.kind, event |-> frame.event, args |-> frame.args]
    /\ UNCHANGED <<running, stop_listener, listeners, stop_called>>

\* a frame arrives, whatever was sent before it
Recv(i, frame) ==
    /\ recv(i, frame)
    /\ UNCHANGED sessVars

(***************************************************************************)
(* streamdeck.py: one session, its frames and its icon POSTs in flight.    *)
(***************************************************************************)
\* frames the device sends in one session
MaxFrames == 3

\* the frames of the session: a press and a release of the first button, and
\* a frame that lacks a key
SessionFrames ==
    {Frame("message", "keyDown", ArgStr(UUIDNames[1])),
     Frame("message", "keyUp", ArgStr(UUIDNames[1])),
     Frame("KeyError", "", ArgEmpty)}

\* the device sends a frame on the open websocket; frames are numbered as sent
DeviceSends(frame) ==
    /\ \E i \in Tasks : ws[i]
    /\ Len(handled) + Len(wire) < MaxFrames
    /\ wire' = Append(wire, [n |-> Len(handled) + Len(wire) + 1, frame |-> frame])
    /\ lastOp' = [op |-> "device_sends", n |-> Len(handled) + Len(wire) + 1]
    /\ issued' = <<>> /\ fired' = <<>> /\ pushed' = <<>> /\ raised' = None
    /\ UNCHANGED <<handled, pending, reconciling>>
    /\ UNCHANGED pushVars
    /\ UNCHANGED <<hostVars, sdVars, routerVars, supVars>>

\* line 457: websocket.recv() returns the message that arrived first
next_frame_newest(w) == Len(w)
next_frame(w) == 1

\* update_icon awaits the POST as an executor job (lines 346-351), and the
\* listener runs as a task of its own: the event loop is not held by a POST
loop_held_by_post(p) == p # {}
loop_held(p) == FALSE

\* lines 457-458 on the frames of the wire: recv() returns, on_message is
\* called and returns before the next recv() is awaited
RecvNext(i) ==
    LET k == next_frame(wire)
    IN /\ wire # <<>>
       /\ ~loop_held(pending)
       /\ recv(i, wire[k].frame)
       /\ wire' = [j \in 1 .. Len(wire) - 1 |-> IF j < k THEN wire[j] ELSE wire[j + 1]]
       /\ handled' = Append(handled, wire[k].n)
       /\ UNCHANGED <<pending, reconciling>>
       /\ UNCHANGED pushVars

\* the state-change listener as the task it runs in: the POSTs of update_icon
\* are in flight when it yields
StateChangeTask(entity_id) ==
    /\ listeners > 0
    /\ on_entity_state_change_sd(entity_id)
    /\ pending' = pending \cup {pushed'[i].uuid : i \in 1 .. Len(pushed')}
    /\ UNCHANGED <<wire, handled, reconciling>>
    /\ UNCHANGED pushVars

\* the POST of update_icon for button u comes back
PushCompletes(u) ==
    /\ u \in pending
    /\ pending' = pending \ {u}
    /\ lastOp' = [op |-> "update_icon", uuid |-> u]
    /\ issued' = <<>> /\ fired' = <<>> /\ pushed' = <<>> /\ raised' = None
    /\ UNCHANGED <<wire, handled, reconciling>>
    /\ UNCHANGED pushVars
    /\ UNCHANGED <<hostVars, sdVars, routerVars, supVars>>

\* icons rendered and posted in one session
MaxRenders == 3

\* the POSTs one run of the listener issues, numbered as rendered
NewPosts(seq, n) ==
    [i \in 1 .. Len(seq) |-> [n |-> n + 1, uuid |-> seq[i].uuid, svg |-> seq[i].svg]]

\* StreamDeck.on_entity_state_change as the task the bus runs it in, for an
\* entity that is bound: it renders from the state the store holds now and
\* hands each POST to the executor, where it is in flight when the task
\* yields. The POSTs of one run go out one after the other (line 485 awaits
\* each); they are to different buttons.
StateChangeRenders(entity_id) ==
    /\ listeners > 0
    /\ renders < MaxRenders
    /\ on_entity_state_change_sd(entity_id)
    /\ pushed' # <<>>
    /\ posts' = posts \o NewPosts(pushed', renders)
    /\ renders' = renders + 1
    /\ UNCHANGED <<wire, handled, pending, reconciling, shown>>

\* post_request of one POST in flight returns 200: the device shows its icon.
\* Each POST is a job of its own in the executor's thread pool, on a
\* connection of its own: any of those in flight can be the next to arrive.
PostArrives(k) ==
    /\ k \in 1 .. Len(posts)
    /\ shown' = [shown EXCEPT ![posts[k].uuid] = <<posts[k]>>]
    /\ posts' = [j \in 1 .. Len(posts) - 1 |-> IF j < k THEN posts[j] ELSE posts[j + 1]]
    /\ lastOp' = [op |-> "post_arrives", uuid |-> posts[k].uuid, n |-> posts[k].n]
    /\ issued' = <<>> /\ fired' = <<>> /\ pushed' = <<>> /\ raised' = None
    /\ UNCHANGED <<wire, handled, pending, reconciling, renders>>
    /\ UNCHANGED <<hostVars, sdVars, routerVars, supVars>>

\* websocket.recv() raises a WebSocketException (the connection was closed):
\* caught at line 460, the `async with` is left, line 449 tests the flag
RecvFails(i) ==
    /\ tasks[i] = "recv"
    /\ tasks' = [tasks EXCEPT ![i] = loop_test(running)]
    /\ ws' = [ws EXCEPT ![i] = FALSE]
    /\ lastOp' = SupStep(i, "recv_failed")
    /\ issued' = <<>> /\ fired' = <<>> /\ pushed' = <<>> /\ raised' = None
    /\ UNCHANGED <<running, stop_listener, listeners, stop_called>>
    /\ UNCHANGED <<hostVars, sdVars, routerVars>>
    /\ UNCHANGED sessVars

\* websocket.close() of line 459 returns, the `async with` is left, line 449
\* tests the flag
CloseReturns(i) ==
    /\ tasks[i] = "close"
    /\ tasks' = [tasks EXCEPT ![i] = loop_test(running)]
    /\ ws' = [ws EXCEPT ![i] = FALSE]
    /\ lastOp' = SupStep(i, "closed")
    /\ issued' = <<>> /\ fired' = <<>> /\ pushed' = <<>> /\ raised' = None
    /\ UNCHANGED <<running, stop_listener, listeners, stop_called>>
    /\ UNCHANGED <<hostVars, sdVars, routerVars>>
    /\ UNCHANGED sessVars

(***************************************************************************)
(* Initial states and specifications.                                      *)
(***************************************************************************)
\* bindings a config entry can hold from an earlier run (streamdeck.py)
PriorBindings ==
    UNION {[S -> {""} \cup SdSelectOptions] : S \in SUBSET UUIDs}

\* no icon has been posted to the device
InitPush ==
    /\ posts = <<>>
    /\ shown = [u \in UUIDs |-> <<>>]
    /\ renders = 0

InitOut ==
    /\ lastOp = [op |-> "init"]
    /\ issued = <<>> /\ fired = <<>> /\ pushed = <<>> /\ raised = None

\* StreamDeck.__init__
InitSd ==
    /\ button_dict = EmptyDict
    /\ SDInfo_buttons = {}
    /\ button_sensors = EmptyDict
    /\ sd_selects = EmptyDict
    /\ running = FALSE
    /\ tasks = [i \in Tasks |-> "none"]
    /\ ws = [i \in Tasks |-> FALSE]
    /\ stop_listener = None
    /\ listeners = 0
    /\ stop_called = [i \in Tasks |-> FALSE]
    /\ wire = <<>>
    /\ handled = <<>>
    /\ pending = {}
    /\ reconciling = NotReconciling("idle")
    /\ InitPush

\* async_setup_entry of __init__.py and of select.py, on an entry the config
\* flow created with "buttons": {}
InitRouter ==
    /\ config_entry = TRUE
    /\ buttons = EmptyDict
    /\ current = None
    /\ selects = [u \in UUIDs |-> ""]
    /\ api_state = "Probing"

AllPresent == [e \in Entities |-> IF EntityDomain(e) = "light" THEN On(<<100>>) ELSE Off]

\* the binding store of the StreamDeck class
StoreInit ==
    /\ states = [AllPresent EXCEPT !["switch.fan"] = NoState]
    /\ sd_entry \in BOOLEAN
    /\ entry_buttons \in PriorBindings
    /\ InitSd /\ InitRouter /\ InitOut

StoreNext ==
    \/ \E res \in InfoResponses : GetInfo(res)
    \/ \E binary \in BOOLEAN, select \in BOOLEAN, res \in InfoResponses :
            AddEntities(binary, select, res)
    \/ \E uuid \in UUIDs, entity_id \in SdSelectOptions : SetButtonEntity(uuid, entity_id)

SpecStore == StoreInit /\ [][StoreNext]_vars

\* the router of __init__.py facing the device; the host may have removed
\* the config entry before the first frame
RouterInit ==
    /\ states = AllPresent
    /\ sd_entry = TRUE
    /\ entry_buttons = EmptyDict
    /\ InitSd /\ InitOut
    /\ config_entry \in BOOLEAN
    /\ buttons = EmptyDict
    /\ current = None
    /\ selects = [u \in UUIDs |-> ""]
    /\ api_state = "Probing"

\* the states the host moves the entities through while frames arrive
RouterStates(e) ==
    IF EntityDomain(e) = "light"
    THEN {NoState, Off, On(<<100>>), On(<<250>>)}
    ELSE IF EntityDomain(e) = "switch" THEN {NoState, Off}
    ELSE {Off}

RouterNext ==
    \/ \E msg \in Messages : OnWsMessage(msg)
    \/ \E uuid \in UUIDs, option \in SelectOptions : AsyncSelectOption(uuid, option)
    \/ \E e \in Entities : \E s \in RouterStates(e) : HostSetState(e, s)

SpecRouter == RouterInit /\ [][RouterNext]_vars

\* the selects of select.py against the config entry and its removal
SelectInit ==
    /\ states \in {AllPresent, [AllPresent EXCEPT !["light.kitchen"] = NoState]}
    /\ sd_entry = TRUE
    /\ entry_buttons = EmptyDict
    /\ InitSd /\ InitRouter /\ InitOut

SelectNext ==
    \/ \E uuid \in UUIDs, option \in SelectOptions : AsyncSelectOption(uuid, option)
    \/ RemoveEntry

SpecSelect == SelectInit /\ [][SelectNext]_vars

\* the StreamDeck class receiving frames, its entities added by add_entities
LegacyInit ==
    /\ states = [AllPresent EXCEPT !["light.kitchen"] = NoState]
    /\ sd_entry \in BOOLEAN
    /\ entry_buttons = EmptyDict
    /\ InitSd /\ InitRouter /\ InitOut

LegacyNext ==
    \/ \E frame \in Frames : OnMessage(frame)
    \/ \E e \in Entities : OnEntityStateChangeSd(e)
    \/ \E res \in InfoResponses : AddEntities(TRUE, TRUE, res)
    \/ \E uuid \in UUIDs, entity_id \in SdSelectOptions : SetButtonEntity(uuid, entity_id)

SpecLegacy == LegacyInit /\ [][LegacyNext]_vars

\* the decoder of the StreamDeck class applied to whatever a frame parses to
DecodeInit == LegacyInit

DecodeNext == \E obj \in RawObjects : DecodeMessage(obj)

SpecDecode == DecodeInit /\ [][DecodeNext]_vars

\* the supervisor of the StreamDeck class: start, stop and the task's steps
SupervisorInit ==
    /\ states = [AllPresent EXCEPT !["light.kitchen"] = NoState]
    /\ sd_entry \in BOOLEAN
    /\ entry_buttons = EmptyDict
    /\ InitSd /\ InitRouter /\ InitOut

SupervisorNext ==
    \/ Start
    \/ Stop
    \/ \E i \in Tasks : TaskBegin(i)
    \/ \E i \in Tasks, res \in InfoResponses : ProbeReturns(i, res)
    \/ \E i \in Tasks, outcome \in ConnectOutcomes : ConnectReturns(i, outcome)
    \/ \E i \in Tasks, frame \in Frames : Recv(i, frame)
    \/ \E i \in Tasks : RecvFails(i)
    \/ \E i \in Tasks : CloseReturns(i)

SpecSupervisor == SupervisorInit /\ [][SupervisorNext]_vars

\* the event loop runs a created task, and get_info (requests timeout),
\* connect and close (their timeouts) come back; recv has no timeout, and
\* nothing obliges the device to send a frame or the connection to fail
SupervisorFairness ==
    /\ WF_vars(\E i \in Tasks : TaskBegin(i))
    /\ WF_vars(\E i \in Tasks, res \in InfoResponses : ProbeReturns(i, res))
    /\ WF_vars(\E i \in Tasks, outcome \in ConnectOutcomes : ConnectReturns(i, outcome))
    /\ WF_vars(\E i \in Tasks : CloseReturns(i))

SpecSupervisorFair == SupervisorInit /\ [][SupervisorNext]_vars /\ SupervisorFairness

\* bindings the config entry holds from earlier runs of the selects
StoredOptions == SELECT_DEFAULT_OPTIONS \cup {SELECT_OPTION_DELETE} \cup SdSelectOptions
StoredBindings == UNION {[S -> StoredOptions] : S \in SUBSET UUIDs}

\* a stored config entry is set up: its selects, the websocket loop of the
\* api, the listener of state changes
RenderInit ==
    /\ states \in {AllPresent, [AllPresent EXCEPT !["light.kitchen"] = NoState]}
    /\ sd_entry = TRUE
    /\ entry_buttons = EmptyDict
    /\ InitSd /\ InitOut
    /\ config_entry = TRUE
    /\ buttons \in StoredBindings
    /\ current = None
    /\ selects = EmptyDict
    /\ api_state = "Probing"

RenderNext ==
    \/ \E res \in InfoResponses : SelectSetup(res)
    \/ ApiConnected
    \/ ApiTransportFailure
    \/ \E e \in Entities : OnEntityStateChange(e)
    \/ RemoveEntry

SpecRender == RenderInit /\ [][RenderNext]_vars

\* the binding store with add_entities awaiting its get_info while the
\* selects assign
ReconcileInit ==
    /\ states = [AllPresent EXCEPT !["switch.fan"] = NoState]
    /\ sd_entry = TRUE
    /\ entry_buttons \in PriorBindings
    /\ InitSd /\ InitRouter /\ InitOut

ReconcileNext ==
    \/ \E binary \in BOOLEAN, select \in BOOLEAN : AddEntitiesCalled(binary, select)
    \/ \E res \in InfoResponses : AddEntitiesResumes(res)
    \/ \E uuid \in UUIDs, entity_id \in SdSelectOptions : SetButtonEntity(uuid, entity_id)

SpecReconcile == ReconcileInit /\ [][ReconcileNext]_vars

\* the StreamDeck class in a session: add_entities has run on an entry with
\* all buttons, start() has been called, the task has connected
SessionInit ==
    /\ states = AllPresent
    /\ sd_entry = TRUE
    /\ entry_buttons = [u \in UUIDs |-> ""]
    /\ button_dict = [u \in UUIDs |-> ""]
    /\ SDInfo_buttons = UUIDs
    /\ button_sensors = [u \in UUIDs |-> "off"]
    /\ sd_selects = [u \in UUIDs |-> ""]
    /\ running = TRUE
    /\ tasks = [i \in Tasks |-> IF i = 1 THEN "recv" ELSE "none"]
    /\ ws = [i \in Tasks |-> i = 1]
    /\ stop_listener = "live"
    /\ listeners = 1
    /\ stop_called = [i \in Tasks |-> FALSE]
    /\ wire = <<>> /\ handled = <<>> /\ pending = {} /\ reconciling = NotReconciling("idle")
    /\ InitPush
    /\ InitRouter /\ InitOut

SessionNext ==
    \/ \E frame \in SessionFrames : DeviceSends(frame)
    \/ \E i \in Tasks : RecvNext(i)
    \/ \E e \in SdSelectOptions : StateChangeTask(e)
    \/ \E u \in UUIDs : PushCompletes(u)
    \/ \E uuid \in UUIDs, entity_id \in SdSelectOptions : SetButtonEntity(uuid, entity_id)

SpecSession == SessionInit /\ [][SessionNext]_vars

\* the host before the device is added: no entry, nothing set up
SetupInit ==
    /\ states \in {AllPresent, [AllPresent EXCEPT !["light.kitchen"] = NoState]}
    /\ sd_entry = TRUE
    /\ entry_buttons = EmptyDict
    /\ InitSd /\ InitOut
    /\ config_entry = FALSE
    /\ buttons = EmptyDict
    /\ current = None
    /\ selects = EmptyDict
    /\ api_state = "Stopped"

SetupNext ==
    \/ \E res \in InfoResponses : AsyncStepUser(res)
    \/ \E res \in InfoResponses, res2 \in InfoResponses : AsyncSetupEntry(res, res2)
    \/ AsyncUnloadEntry
    \/ \E uuid \in UUIDs, option \in SelectOptions : AsyncSelectOption(uuid, option)
    \/ ApiConnected
    \/ ApiTransportFailure

SpecSetup == SetupInit /\ [][SetupNext]_vars

\* the entry set up and unloaded while the host's entities change state
UnloadInit == SetupInit

UnloadNext ==
    \/ SetupNext
    \/ \E e \in Entities : StateChangedEvent(e)

SpecUnload == UnloadInit /\ [][UnloadNext]_vars

\* the StreamDeck class with its listener registered and the first button
\* bound to the switch, whose state the host changes
PushInit ==
    /\ states = AllPresent
    /\ sd_entry = TRUE
    /\ entry_buttons = [u \in UUIDs |-> IF u = UUIDNames[1] THEN "switch.fan" ELSE ""]
    /\ button_dict = entry_buttons
    /\ SDInfo_buttons = UUIDs
    /\ button_sensors = [u \in UUIDs |-> "off"]
    /\ sd_selects = button_dict
    /\ running = TRUE
    /\ tasks = [i \in Tasks |-> IF i = 1 THEN "recv" ELSE "none"]
    /\ ws = [i \in Tasks |-> i = 1]
    /\ stop_listener = "live"
    /\ listeners = 1
    /\ stop_called = [i \in Tasks |-> FALSE]
    /\ wire = <<>> /\ handled = <<>> /\ pending = {} /\ reconciling = NotReconciling("idle")
    /\ InitPush
    /\ InitRouter /\ InitOut

PushNext ==
    \/ \E s \in {Off, On(<<>>)} : HostSetState("switch.fan", s)
    \/ \E e \in Entities : StateChangeRenders(e)
    \/ \E k \in 1 .. MaxRenders * NumButtons : PostArrives(k)

SpecPush == PushInit /\ [][PushNext]_vars

Init == StoreInit \/ RouterInit \/ SelectInit \/ LegacyInit \/ SupervisorInit \/ RenderInit
        \/ SetupInit \/ SessionInit \/ ReconcileInit \/ DecodeInit
        \/ UnloadInit \/ PushInit
Next == StoreNext \/ RouterNext \/ SelectNext \/ LegacyNext \/ SupervisorNext \/ RenderNext
        \/ SetupNext \/ SessionNext \/ ReconcileNext \/ DecodeNext
        \/ UnloadNext \/ PushNext
Spec == Init /\ [][Next]_vars

(***************************************************************************)
(* Claims about the binding store of the StreamDeck class (SpecStore).     *)
(***************************************************************************)
\* the step is a reconciliation: add_entities got a callback and its info
\* fetch succeeded
Reconciled(op) ==
    /\ op.op = "add_entities"
    /\ op.reached
    /\ op.binary \/ op.select

\* C1: a reconciliation leaves a key for every button UUID the device
\* reported, maps every UUID that had no prior binding to "", and with no
\* prior bindings yields exactly the reported buttons, each mapped to "".
C1_ReconcileExact ==
    [][Reconciled(lastOp') =>
        /\ lastOp'.res.buttons \subseteq DOMAIN entry_buttons'
        /\ \A u \in (DOMAIN entry_buttons') \ (DOMAIN entry_buttons) :
                entry_buttons'[u] = ""
        /\ entry_buttons = EmptyDict =>
                entry_buttons' = [u \in lastOp'.res.buttons |-> ""]]_vars

\* C1, the part that holds of the code: a key for every reported button, and
\* "" for every key that is new.
C1_ReconcileCovers ==
    [][Reconciled(lastOp') =>
        /\ lastOp'.res.buttons \subseteq DOMAIN entry_buttons'
        /\ \A u \in (DOMAIN entry_buttons') \ (DOMAIN entry_buttons) :
                entry_buttons'[u] = ""]_vars

\* C2: add_entities never removes a stored binding, whether or not the device
\* reported its UUID, and never changes the entity a stored UUID is bound to.
C2_Retained ==
    [][lastOp'.op = "add_entities" =>
        \A u \in DOMAIN entry_buttons :
            /\ u \in DOMAIN entry_buttons'
            /\ entry_buttons'[u] = entry_buttons[u]]_vars

\* a reconciliation has run over a binding to an entity whose button the
\* device did not report, and has added a reported button
C2_Witness ==
    /\ Reconciled(lastOp)
    /\ \E u \in DOMAIN entry_buttons :
            u \notin lastOp.res.buttons /\ entry_buttons[u] \in Entities
    /\ \E v \in lastOp.res.buttons : entry_buttons[v] = ""

\* C3: a second reconciliation with the same device-button set, right after
\* the first, leaves the stored bindings as the first left them.
C3_Idempotent ==
    [][(Reconciled(lastOp') /\ lastOp'.again) =>
        /\ entry_buttons' = entry_buttons
        /\ button_dict' = button_dict]_vars

\* the second of two reconciliations with the same non-empty button set has
\* run, over a store that holds a bound and an empty binding
C3_Witness ==
    /\ Reconciled(lastOp)
    /\ lastOp.again
    /\ \E u \in lastOp.res.buttons : entry_buttons[u] = ""
    /\ \E v \in DOMAIN entry_buttons : entry_buttons[v] \in Entities

\* C4 for the StreamDeck class: set_button_entity on an existing entry leaves
\* entry.data["buttons"] mapping the button to the option, the rest unchanged.
C4_SetButtonEntity ==
    [][(lastOp'.op = "set_button_entity" /\ sd_entry) =>
        /\ DOMAIN entry_buttons' = (DOMAIN entry_buttons) \cup {lastOp'.uuid}
        /\ entry_buttons'[lastOp'.uuid] = lastOp'.option
        /\ \A v \in (DOMAIN entry_buttons) \ {lastOp'.uuid} :
                entry_buttons'[v] = entry_buttons[v]]_vars

ShortPress(op, u) ==
    op.op = "on_ws_message" /\ op.event = EVENT_SHORT_PRESS /\ op.args = ArgStr(u)
LongPress(op, u) ==
    op.op = "on_ws_message" /\ op.event = EVENT_LONG_PRESS /\ op.args = ArgStr(u)
\* the config entry binds button u to e
Bound(u, e) == config_entry /\ u \in DOMAIN buttons /\ buttons[u] = e
BoundUpDown(u) == Bound(u, SELECT_OPTION_UP) \/ Bound(u, SELECT_OPTION_DOWN)

\* C5: a short press of a button bound to a real entity whose state exists
\* and whose domain is toggleable issues exactly one toggle call, targeting
\* that entity, and makes the entity the Last-Pressed Pointer.
C5_Toggle ==
    \A u \in ArgStrings : \A e \in Entities :
        (/\ ShortPress(lastOp, u)
         /\ Bound(u, e)
         /\ states[e] # NoState
         /\ EntityDomain(e) \in TOGGLEABLE_PLATFORMS)
        => /\ issued = <<ServiceCall(EntityDomain(e), "toggle", e, <<>>)>>
           /\ current = e

\* a short press has toggled the kitchen light
C5_Witness ==
    \E u \in UUIDs :
        /\ ShortPress(lastOp, u)
        /\ Bound(u, "light.kitchen")
        /\ issued = <<ServiceCall("light", "toggle", "light.kitchen", <<>>)>>
        /\ current = "light.kitchen"

\* C6: a short press of an up or down button acts on the entity the pointer
\* holds: every call it issues targets that entity and none a sentinel, a
\* pointer holding a light with a brightness gets a call, and with the pointer
\* unset the press issues nothing and changes no state.
C6_UpDownActsOnPointer ==
    [][\A u \in ArgStrings :
        (ShortPress(lastOp', u) /\ BoundUpDown(u)) =>
            /\ \A i \in 1 .. Len(issued') :
                    /\ issued'[i].target = current
                    /\ issued'[i].target \notin {SELECT_OPTION_UP, SELECT_OPTION_DOWN}
            /\ (/\ current \in Entities
                /\ EntityDomain(current) = "light"
                /\ Len(states[current].brightness) = 1) => Len(issued') = 1
            /\ current = None =>
                    /\ issued' = <<>>
                    /\ UNCHANGED <<routerVars, hostVars, sdVars>>]_vars

\* a short press of the up button has issued a call for the light the
\* pointer holds
C6_Witness ==
    \E u \in UUIDs :
        /\ ShortPress(lastOp, u)
        /\ Bound(u, SELECT_OPTION_UP)
        /\ current = "light.kitchen"
        /\ Len(issued) = 1
        /\ issued[1].target = "light.kitchen"

\* the brightness range of a light
Clamp(x) == IF x > 255 THEN 255 ELSE IF x < 0 THEN 0 ELSE x

\* C7: a short press of an up (down) button whose pointer holds a light with
\* integer brightness b issues one turn-on call with brightness b+15 (b-15)
\* clamped to 0..255.
C7_Clamped ==
    \A u \in ArgStrings : \A e \in Entities :
        (/\ ShortPress(lastOp, u)
         /\ BoundUpDown(u)
         /\ current = e
         /\ EntityDomain(e) = "light"
         /\ Len(states[e].brightness) = 1)
        => LET b == states[e].brightness[1]
               want == IF Bound(u, SELECT_OPTION_UP)
                       THEN b + UP_DOWN_STEPS ELSE b - UP_DOWN_STEPS
           IN issued = <<ServiceCall("light", "turn_on", e, <<Clamp(want)>>)>>

\* C7, what the code does: the call carries b+15 (b-15) as it is; from
\* brightness 100 an up press asks for 115.
C7_Unclamped ==
    \A u \in ArgStrings : \A e \in Entities :
        (/\ ShortPress(lastOp, u)
         /\ BoundUpDown(u)
         /\ current = e
         /\ EntityDomain(e) = "light"
         /\ Len(states[e].brightness) = 1)
        => LET b == states[e].brightness[1]
               want == IF Bound(u, SELECT_OPTION_UP)
                       THEN b + UP_DOWN_STEPS ELSE b - UP_DOWN_STEPS
           IN issued = <<ServiceCall("light", "turn_on", e, <<want>>)>>

\* C8: a long press of a button bound to switch.fan followed by a short
\* press of a down button issues no service call in either frame, and the
\* pointer is switch.fan after each of them.
C8_LongPressThenDown ==
    [][\A u \in ArgStrings : \A d \in ArgStrings :
        (/\ LongPress(lastOp, u)
         /\ Bound(u, "switch.fan")
         /\ ShortPress(lastOp', d)
         /\ Bound(d, SELECT_OPTION_DOWN))
        => /\ issued = <<>>
           /\ current = "switch.fan"
           /\ issued' = <<>>
           /\ current' = "switch.fan"]_vars

\* the down press has run right after the long press of the fan's button,
\* the fan having a state
C8_Witness ==
    \E d \in UUIDs :
        /\ ShortPress(lastOp, d)
        /\ lastOp.after_long_press
        /\ Bound(d, SELECT_OPTION_DOWN)
        /\ \E u \in UUIDs : Bound(u, "switch.fan")
        /\ states["switch.fan"] # NoState
        /\ current = "switch.fan"
        /\ issued = <<>>

\* C9: a long press issues no service call; it sets the pointer to the
\* button's bound entity when the button has a stored binding and leaves the
\* pointer as it was when it has none.
C9_LongPress ==
    [][\A u \in ArgStrings :
        LongPress(lastOp', u) =>
            /\ issued' = <<>>
            /\ IF config_entry /\ u \in DOMAIN buttons
               THEN current' = buttons[u]
               ELSE current' = current]_vars

\* a long press of a button without a binding has run with the pointer set
C9_Witness ==
    \E u \in ArgStrings :
        /\ LongPress(lastOp, u)
        /\ config_entry
        /\ u \notin DOMAIN buttons
        /\ current \in Entities
        /\ issued = <<>>

\* a long press has set the pointer to the bound entity
C9_WitnessBound ==
    \E u \in UUIDs :
        /\ LongPress(lastOp, u)
        /\ Bound(u, "switch.fan")
        /\ current = "switch.fan"

\* C10: every message handed to on_ws_message is published on the event bus
\* under the namespaced event name, with the host and the raw args, whatever
\* its tag and whatever the dispatch does.
C10_Published ==
    lastOp.op = "on_ws_message" =>
        fired = <<[event_type |-> "streamdeck_" \o lastOp.event,
                   host |-> Host, data |-> lastOp.args]>>

\* published: a frame with an unknown tag, or a long press of a button
\* without a binding, for which the dispatch does nothing
C10_Witness ==
    /\ lastOp.op = "on_ws_message"
    /\ Len(fired) = 1
    /\ \/ lastOp.event = "futureEvent" /\ fired[1].event_type = "streamdeck_futureEvent"
       \/ /\ LongPress(lastOp, UnknownUUID)
          /\ fired[1].data = ArgStr(UnknownUUID)

\* C10 for the StreamDeck class: every frame on_message decodes is fired on
\* the bus as streamdeck-<event> with the host and the args, whatever the
\* match statement does with it.
C10_PublishedLegacy ==
    (lastOp.op = "on_message" /\ lastOp.kind = "message") =>
        fired = <<[event_type |-> "streamdeck-" \o lastOp.event,
                   host |-> Host, data |-> lastOp.args]>>

\* a key-down frame for a button without a sensor has been fired
C10_WitnessLegacy ==
    /\ lastOp.op = "on_message"
    /\ lastOp.event = "keyDown"
    /\ lastOp.args = ArgStr(UnknownUUID)
    /\ Len(fired) = 1

(***************************************************************************)
(* Claims about the connection supervisor of the StreamDeck class.         *)
(***************************************************************************)
\* the supervisor state a task position stands for: a task that returned or
\* was ended by an exception no longer runs
SupState(pos) ==
    IF pos \in {"created", "get_info", "connect"} THEN "Probing"
    ELSE IF pos \in {"recv", "close"} THEN "Connected"
    ELSE "Stopped"

\* C11: the supervisor moves only along Stopped -> Probing -> Connected ->
\* Probing -> Stopped: Connected is entered only from Probing, Stopped is left
\* only by start (into Probing), and Stopped is entered only on an explicit
\* stop.
C11_Transitions ==
    [][\A i \in Tasks :
        LET a == SupState(tasks[i])
            b == SupState(tasks'[i])
        IN /\ (b = "Connected" /\ a # "Connected") => a = "Probing"
           /\ (a = "Stopped" /\ b # "Stopped") =>
                    (lastOp'.op = "start" /\ b = "Probing")
           /\ (b = "Stopped" /\ a # "Stopped") => stop_called[i]]_vars

\* C11, what holds of the code: the same for every step that is not a task
\* ended by an exception.
C11_TransitionsUnlessRaised ==
    [][\A i \in Tasks :
        LET a == SupState(tasks[i])
            b == SupState(tasks'[i])
        IN tasks'[i] # "raised" =>
           /\ (b = "Connected" /\ a # "Connected") => a = "Probing"
           /\ (a = "Stopped" /\ b # "Stopped") =>
                    (lastOp'.op = "start" /\ b = "Probing")
           /\ (b = "Stopped" /\ a # "Stopped") => stop_called[i]]_vars

\* the step is task i coming back from a failed connect or a failed recv
TransportFailure(op, i) ==
    /\ op.op = "websocket_loop"
    /\ op.task = i
    /\ \/ op.step = "recv_failed"
       \/ op.step = "connect" /\ op.outcome # "connected"

\* C12: a transport failure while connecting or while connected ends the
\* websocket session and returns the supervisor to probing; it never ends the
\* task, and a session that is not stopped starts the next probe.
C12_TransportFailureRetried ==
    [][\A i \in Tasks :
        TransportFailure(lastOp', i) =>
            /\ tasks'[i] # "raised"
            /\ ~ws'[i]
            /\ running => tasks'[i] = "get_info"]_vars

\* C12, what holds of the code: the same for the failures that are a
\* WebSocketException.
C12_WebSocketExceptionRetried ==
    [][\A i \in Tasks :
        (TransportFailure(lastOp', i) /\ raised' = None) =>
            /\ tasks'[i] # "raised"
            /\ ~ws'[i]
            /\ running => tasks'[i] = "get_info"]_vars

\* the step is task i handling a received frame that does not decode
UndecodedFrame(op, i) ==
    /\ op.op = "websocket_loop"
    /\ op.task = i
    /\ op.step = "recv"
    /\ op.kind # "message"

\* C13: a received frame that fails decoding is dropped: nothing is
\* published or dispatched for it, no exception leaves the receive loop and
\* the task stays in its websocket session.
C13_DecodeFailureDropped ==
    \A i \in Tasks :
        UndecodedFrame(lastOp, i) =>
            /\ fired = <<>> /\ issued = <<>> /\ pushed = <<>>
            /\ raised = None
            /\ tasks[i] \in {"recv", "close"}
            /\ ws[i]

\* C13, what holds of the code: the same for the frames json.loads rejects
\* and the frames a KeyError is raised for.
C13_CaughtFailureDropped ==
    \A i \in Tasks :
        (UndecodedFrame(lastOp, i) /\ lastOp.kind \in {"JSONDecodeError", "KeyError"}) =>
            /\ fired = <<>> /\ issued = <<>> /\ pushed = <<>>
            /\ raised = None
            /\ tasks[i] \in {"recv", "close"}
            /\ ws[i]

\* C14: stop is safe in every state: whenever it is called (never started,
\* already stopped, a second time) it raises nothing and leaves the running
\* flag down.
C14_StopSafe ==
    lastOp.op = "stop" => (raised = None /\ ~running)

\* C14, what holds of the code: stop raises nothing once start has set the
\* listener handle, however often it is called, and always lowers the flag.
C14_StopSafeOnceStarted ==
    lastOp.op = "stop" =>
        /\ ~running
        /\ stop_listener # None => (raised = None /\ stop_listener = "spent")

\* the step is a step of task i
TaskStep(op, i) == op.op = "websocket_loop" /\ op.task = i

\* C15: once stop has been called, the task starts no new info probe and no
\* new receive, and it does not return with its websocket open.
C15_StopObserved ==
    [][\A i \in Tasks :
        (stop_called[i] /\ TaskStep(lastOp', i)) =>
            /\ tasks'[i] \notin {"get_info", "recv"}
            /\ tasks'[i] = "done" => ~ws'[i]]_vars

\* C15, what holds of the code: a task that has taken its first step tests
\* the flag before every probe and every receive, and closes its websocket
\* before it returns.
C15_FlagObserved ==
    [][\A i \in Tasks :
        (~running /\ TaskStep(lastOp', i) /\ lastOp'.step # "begin") =>
            /\ tasks'[i] \notin {"get_info", "recv"}
            /\ tasks'[i] = "done" => ~ws'[i]]_vars

\* C16: after stop has been called the task eventually terminates, also when
\* the device sends no further frame and the connection does not fail.
C16_StopTerminates ==
    \A i \in Tasks : stop_called[i] ~> (tasks[i] \in {"done", "raised"})

\* C16, what the code does: a task that awaits recv when stop is called stays
\* there until a frame arrives or the connection fails; stop changes no task's
\* position.
C16_StopCancelsNothing ==
    [][lastOp'.op = "stop" => tasks' = tasks]_vars

(***************************************************************************)
(* Rendering: the connect hook, state changes, placeholders.               *)
(***************************************************************************)
\* the pushes in `seq` that go to button u
PushesTo(seq, u) == SelectSeq(seq, LAMBDA p : p.uuid = u)

C18_StateChangeUpdates ==
    (/\ lastOp.op = "on_entity_state_change"
     /\ config_entry
     /\ hass_states_get(lastOp.entity_id) # NoState) =>
        \A u \in UUIDs :
            PushesTo(pushed, u) =
                IF u \in DOMAIN buttons /\ buttons[u] = lastOp.entity_id
                THEN update_button_icon(buttons, u)
                ELSE <<>>

\* C18, what __init__.py does: the handler of a loaded entry ends in KeyError
\* and pushes nothing
C18_StateChangeRaises ==
    (lastOp.op = "on_entity_state_change" /\ config_entry) =>
        (raised = "KeyError" /\ pushed = <<>>)

\* C18 for the listener of the StreamDeck class: one push for every button
\* bound to the entity, none for another button
C18_StateChangeUpdatesSd ==
    (/\ lastOp.op = "sd_on_entity_state_change"
     /\ hass_states_get(lastOp.entity_id) # NoState) =>
        \A u \in UUIDs :
            Len(PushesTo(pushed, u)) =
                IF u \in DOMAIN button_dict /\ button_dict[u] = lastOp.entity_id
                THEN 1 ELSE 0

\* C18 happens for the StreamDeck class: two buttons bound to the entity
\* whose state changed, both pushed
C18_WitnessSd ==
    /\ lastOp.op = "sd_on_entity_state_change"
    /\ Cardinality({u \in DOMAIN button_dict : button_dict[u] = lastOp.entity_id}) >= 2
    /\ Len(pushed) >= 2

\* the placeholder of an unbound button and the glyphs of the up and the
\* down button, as the specification describes them
Placeholder(u) ==
    [rect_fill |-> "#a00", icon_color |-> "#fff", icon |-> None,
     text_top |-> u, text_bottom |-> u]
Glyph(name) ==
    [rect_fill |-> "#000", icon_color |-> "#fff", icon |-> name,
     text_top |-> "", text_bottom |-> ""]
Rendered(op) ==
    IF op.op = "select_setup" THEN op.uuids
    ELSE IF op.op = "on_ws_connect" /\ config_entry THEN DOMAIN buttons
    ELSE {}

C19_WitnessEmptyDown ==
    /\ lastOp.op = "on_ws_connect" /\ config_entry
    /\ \E u, v \in DOMAIN buttons : buttons[u] = "" /\ buttons[v] = SELECT_OPTION_DOWN
    /\ Len(pushed) = 2
    /\ lastOp.lookups = {}

\* the binding of u names an entity the state store has no state for
Stateless(dict, u) ==
    /\ u \in DOMAIN dict
    /\ dict[u] \notin SELECT_DEFAULT_OPTIONS \cup {SELECT_OPTION_DELETE}
    /\ hass_states_get(dict[u]) = NoState

\* C20: when the binding of a rendered button names an entity that has no
\* state in the state store, nothing is pushed to the device for that button.
C20_NoStateNoPush ==
    \A u \in Rendered(lastOp) : Stateless(buttons, u) => PushesTo(pushed, u) = <<>>

\* C20 happens: the connect hook has rendered two buttons, one bound to an
\* entity without state, and pushed the icon of the other one only
C20_Witness ==
    /\ lastOp.op = "on_ws_connect" /\ config_entry
    /\ \E u, v \in DOMAIN buttons :
          /\ Stateless(buttons, u)
          /\ ~Stateless(buttons, v)
          /\ PushesTo(pushed, u) = <<>>
          /\ Len(PushesTo(pushed, v)) = 1
    /\ lastOp.lookups # {}

\* C20 for a select that is given an entity without state as its option
C20_SelectNoPush ==
    (lastOp.op = "async_select_option" /\ hass_states_get(lastOp.option) = NoState
        /\ lastOp.option \in Entities) => pushed = <<>>

\* C20 for StreamDeck.set_button_entity of streamdeck.py
C20_SetButtonEntityNoPush ==
    (lastOp.op = "set_button_entity" /\ hass_states_get(lastOp.option) = NoState)
        => pushed = <<>>

(***************************************************************************)
(* Icons of bound buttons.                                                 *)
(***************************************************************************)
\* green for on, red for off, black otherwise
OnOffColor(status) ==
    IF status = "on" THEN "#0e0" ELSE IF status = "off" THEN "#e00" ELSE "#000"

\* the pushes of the last handler that show an entity with a state
EntityPushes ==
    {i \in 1 .. Len(pushed) :
        /\ config_entry
        /\ pushed[i].uuid \in DOMAIN buttons
        /\ ~Stateless(buttons, pushed[i].uuid)
        /\ buttons[pushed[i].uuid] \in Entities}

\* C21: the icon pushed for a button bound to an entity with a state has a
\* background that is green when the state is on, red when it is off and
\* black otherwise, a glyph of the same colour, and carries the state and
\* the entity's name as text.
C21_BackgroundEncodesState ==
    lastOp.op \in {"on_ws_connect", "select_setup"} =>
        \A i \in EntityPushes :
            LET e == buttons[pushed[i].uuid]
            IN /\ pushed[i].svg.rect_fill = OnOffColor(hass_states_get(e).state)
               /\ pushed[i].svg.icon_color = OnOffColor(hass_states_get(e).state)
               /\ pushed[i].svg.text_top = hass_states_get(e).state
               /\ pushed[i].svg.text_bottom = StateName(e)

\* C21, what update_button_icon draws: the glyph takes the colour of the
\* state, the background rectangle is black whatever the state is
C21_GlyphEncodesState ==
    lastOp.op \in {"on_ws_connect", "select_setup"} =>
        \A i \in EntityPushes :
            LET e == buttons[pushed[i].uuid]
            IN /\ pushed[i].svg.rect_fill = "#000"
               /\ pushed[i].svg.icon_color = OnOffColor(hass_states_get(e).state)
               /\ pushed[i].svg.text_top = hass_states_get(e).state
               /\ pushed[i].svg.text_bottom = StateName(e)

\* C21, the scenario: A bound to light.kitchen, which is on, has been rendered
C21_ScenarioReached ==
    /\ lastOp.op = "on_ws_connect" /\ config_entry
    /\ "A" \in DOMAIN buttons /\ buttons["A"] = "light.kitchen"
    /\ hass_states_get("light.kitchen").state = "on"
    /\ PushesTo(pushed, "A") # <<>>
    /\ PushesTo(pushed, "A")[1].svg.text_top = "on"
    /\ PushesTo(pushed, "A")[1].svg.text_bottom = "Kitchen"
    /\ PushesTo(pushed, "A")[1].svg.icon_color = "#0e0"

(***************************************************************************)
(* The info fetch and setup.                                               *)
(***************************************************************************)
\* C22: get_info lets no exception escape; every failure of the request, of
\* the status, of the JSON parse and of the decoding of the body yields
\* False, and an SDInfo comes back only when all of them succeed.
C22_InfoNeverRaises ==
    lastOp.op = "get_info" =>
        /\ raised = None
        /\ lastOp.ok <=> lastOp.res.kind = "info"

\* C22, what get_info keeps in: a failed request, a status other than 200, a
\* body that is not JSON and an object that lacks a key yield False
C22_CaughtFailuresCollapse ==
    (lastOp.op = "get_info" /\ lastOp.res.kind # "TypeError") =>
        /\ raised = None
        /\ lastOp.ok <=> lastOp.res.kind = "info"

C23_CannotConnect ==
    [][(lastOp'.op = "async_step_user" /\ lastOp'.outcome = "cannot_connect") =>
          (config_entry' = config_entry /\ buttons' = buttons)]_vars

(***************************************************************************)
(* Assignments.                                                            *)
(***************************************************************************)
\* C24: an assignment made when the config entry no longer exists raises
\* nothing, changes no stored binding, pushes no icon and leaves the state of
\* the session (stored bindings, pointer, the selects' current options) as it
\* was.
C24_NoEntryNoOp ==
    [][(lastOp'.op = "async_select_option" /\ ~config_entry) =>
          /\ raised' = None
          /\ pushed' = <<>>
          /\ buttons' = buttons
          /\ current' = current
          /\ selects' = selects]_vars

\* C24, what async_select_option does without an entry: nothing raised,
\* pushed or stored, but the select has taken the option as its current one
C24_NoEntryOptionTaken ==
    [][(lastOp'.op = "async_select_option" /\ ~config_entry) =>
          /\ raised' = None
          /\ pushed' = <<>>
          /\ buttons' = buttons
          /\ current' = current
          /\ selects' = [selects EXCEPT ![lastOp'.uuid] = lastOp'.option]]_vars

C27_DecodeSnapshot ==
    (lastOp.op = "get_info" /\ lastOp.ok) => SDInfo_buttons = lastOp.res.buttons

\* C27, what SDInfo.__init__ does: the buttons of a decoded SDInfo are those
\* of its payload and of every payload decoded before it
C27_DecodeAccumulates ==
    [][(lastOp'.op = "get_info" /\ lastOp'.ok) =>
          SDInfo_buttons' = SDInfo_buttons \cup lastOp'.res.buttons]_vars

(***************************************************************************)
(* Frames that are neither a key event nor a press.                        *)
(***************************************************************************)
\* the handler that ran last was on_ws_message with a tag it has no branch
\* for: "status", "keyDown", "futureEvent"
NoBranchWs(op) ==
    /\ op.op = "on_ws_message"
    /\ op.event \notin {EVENT_SHORT_PRESS, EVENT_LONG_PRESS}

\* the handler that ran last was on_message with a decoded frame tagged
\* "status" or with a tag that falls to `case _`
NoBranchSd(op) ==
    /\ op.op = "on_message"
    /\ op.kind = "message"
    /\ op.event \notin {"keyDown", "keyUp"}

\* C29: a status frame and a frame with an unrecognized event tag cause no
\* service call and no icon push, and leave the stored bindings and the
\* last-pressed pointer as they were (on_ws_message of __init__.py).
C29_OtherFramesInert ==
    [][NoBranchWs(lastOp') =>
          /\ issued' = <<>>
          /\ pushed' = <<>>
          /\ buttons' = buttons
          /\ current' = current]_vars

\* C29 happens: a frame with an unknown tag named a button bound to an
\* entity that a short press would have toggled, with a pointer already set
C29_Witness ==
    /\ NoBranchWs(lastOp)
    /\ lastOp.event = "futureEvent"
    /\ config_entry
    /\ lastOp.args.str \in DOMAIN buttons
    /\ buttons[lastOp.args.str] \in Entities
    /\ EntityDomain(buttons[lastOp.args.str]) \in TOGGLEABLE_PLATFORMS
    /\ current \in Entities
    /\ current # buttons[lastOp.args.str]

\* C29 happens for a status frame: it carried the device's info
C29_WitnessStatus ==
    /\ NoBranchWs(lastOp)
    /\ lastOp.event = "status"
    /\ lastOp.args.shape = "info"
    /\ current \in Entities

\* C29 for StreamDeck.on_message: a status frame and a frame that falls to
\* `case _` set no entity state, flip no sensor, push no icon and leave the
\* entry's bindings and _button_dict as they were
C29_OtherFramesInertSd ==
    [][NoBranchSd(lastOp') =>
          /\ issued' = <<>>
          /\ pushed' = <<>>
          /\ states' = states
          /\ button_sensors' = button_sensors
          /\ entry_buttons' = entry_buttons
          /\ button_dict' = button_dict]_vars

\* C29 happens in on_message: an unknown tag named a button that has a
\* sensor and a bound entity
C29_WitnessSd ==
    /\ NoBranchSd(lastOp)
    /\ lastOp.event = "futureEvent"
    /\ sd_entry
    /\ lastOp.args.str \in DOMAIN button_dict
    /\ button_dict[lastOp.args.str] \in Entities

(***************************************************************************)
(* The probe before every connection.                                      *)
(***************************************************************************)
\* the step is task i coming back from get_info
ProbeStep(op, i) == TaskStep(op, i) /\ op.step = "probe"

\* C30: the supervisor opens a websocket session only directly after an info
\* probe that succeeded in the same loop iteration; after a failed probe it
\* attempts no connection and probes again, for as long as the session is
\* not stopped.
C30_ProbeGatesConnect ==
    [][\A i \in Tasks :
        /\ (tasks'[i] = "connect" /\ tasks[i] # "connect") =>
                (ProbeStep(lastOp', i) /\ lastOp'.ok)
        /\ (ws'[i] /\ ~ws[i]) => tasks[i] = "connect"
        /\ (ProbeStep(lastOp', i) /\ ~lastOp'.ok) =>
                /\ tasks'[i] # "connect"
                /\ running => tasks'[i] = "get_info"]_vars

\* C30, what holds of the code: the same for the probes that return False;
\* a probe that get_info raises out of ends the task.
C30_ReturnedProbeGatesConnect ==
    [][\A i \in Tasks :
        /\ (tasks'[i] = "connect" /\ tasks[i] # "connect") =>
                (ProbeStep(lastOp', i) /\ lastOp'.ok)
        /\ (ws'[i] /\ ~ws[i]) => tasks[i] = "connect"
        /\ (ProbeStep(lastOp', i) /\ ~lastOp'.ok) =>
                /\ tasks'[i] # "connect"
                /\ (running /\ raised' = None) => tasks'[i] = "get_info"
                /\ raised' # None => tasks'[i] = "raised"]_vars

\* a connect made after a successful probe has opened the websocket of a
\* running task
C30_Retried ==
    \E i \in Tasks :
        /\ lastOp.op = "websocket_loop" /\ lastOp.task = i
        /\ lastOp.step = "connect" /\ ws[i]
        /\ running

\* a failed probe that returned False sent a running task back to get_info
C30_ProbedAgain ==
    \E i \in Tasks :
        /\ ProbeStep(lastOp, i) /\ ~lastOp.ok
        /\ raised = None /\ running
        /\ tasks[i] = "get_info"

(***************************************************************************)
(* The decoder of websocket frames.                                        *)
(***************************************************************************)
\* the last step decoded an object that has the "event" key
DecodedWithEvent(op) ==
    /\ op.op = "SDWebsocketMessage"
    /\ op.obj.top = "object"
    /\ op.obj.has_event

\* C31: the message decoder requires only the event key and selects the
\* argument variant by the shape of args alone, whatever the event tag: {}
\* decodes to the empty variant, a string to the text variant, any other
\* value is decoded as an info or rejected with a decode error.
C31_DecodeByShape ==
    DecodedWithEvent(lastOp) =>
        LET obj == lastOp.obj
            frame == lastOp.frame
        IN /\ obj.args.shape = "absent" => frame.kind = "message"
           /\ obj.args.shape = "empty" => frame = Frame("message", obj.event, ArgEmpty)
           /\ obj.args.shape = "str" => frame = Frame("message", obj.event, obj.args)
           /\ obj.args.shape \notin {"absent", "empty", "str"} =>
                \/ frame.kind # "message"
                \/ frame = Frame("message", obj.event, ArgInfo(obj.args.buttons))

\* C31, what holds of the code: the decoder requires the args key as well as
\* the event key; with both present the variant follows the shape of args
\* alone.
C31_DecodeByShapeBothKeys ==
    DecodedWithEvent(lastOp) =>
        LET obj == lastOp.obj
            frame == lastOp.frame
        IN /\ obj.args.shape = "absent" => frame.kind = "KeyError"
           /\ obj.args.shape = "empty" => frame = Frame("message", obj.event, ArgEmpty)
           /\ obj.args.shape = "str" => frame = Frame("message", obj.event, obj.args)
           /\ obj.args.shape = "info" => frame = Frame("message", obj.event, obj.args)
           /\ obj.args.shape = "dict" => frame.kind = "KeyError"
           /\ obj.args.shape \in {"list", "null", "number"} => frame.kind = "TypeError"

\* a key event that carried an info was decoded to the info variant, and a
\* status frame that carried a string to the text variant
C31_ShapeOverTag ==
    /\ DecodedWithEvent(lastOp)
    /\ lastOp.frame.kind = "message"
    /\ \/ lastOp.obj.event = "keyDown" /\ lastOp.frame.args.shape = "info"
       \/ lastOp.obj.event = "status" /\ lastOp.frame.args.shape = "str"

(***************************************************************************)
(* The last-pressed pointer.                                               *)
(***************************************************************************)
\* C32: in every reachable state the last-pressed pointer is unset or the
\* identifier of a real entity; no sequence of short-press and long-press
\* frames sets it to the up sentinel, the down sentinel or the empty string.
C32_PointerIsEntity ==
    current = None \/ current \in Entities

\* C32, what holds of the code: a short press leaves the pointer unset or at
\* a real entity whenever it found it so.
C32_ShortPressKeepsEntity ==
    [][(/\ lastOp'.op = "on_ws_message"
        /\ lastOp'.event = EVENT_SHORT_PRESS
        /\ current = None \/ current \in Entities) =>
            (current' = None \/ current' \in Entities)]_vars

\* a long press on a button bound to a sentinel or to nothing has left that
\* binding under the pointer
C32_LongPressStoresBinding ==
    /\ long_press_took_effect
    /\ current \in {SELECT_OPTION_UP, SELECT_OPTION_DOWN, ""}

(***************************************************************************)
(* A stop before the task's first step.                                    *)
(***************************************************************************)
\* C33: a stop issued after start is never lost: a task that was created by
\* start and has stop called on it before its first step takes that step
\* to its end, without an info probe and without a websocket.
C33_StopNotLost ==
    [][\A i \in Tasks :
        (/\ tasks[i] = "created"
         /\ stop_called[i]
         /\ TaskStep(lastOp', i)) =>
            /\ tasks'[i] = "done"
            /\ ~ws'[i]
            /\ ~running']_vars

\* C33, what the code does: the first step of the task raises the flag and
\* starts the probe, whether or not stop has been called.
C33_FirstStepRaisesFlag ==
    [][\A i \in Tasks :
        (tasks[i] = "created" /\ TaskStep(lastOp', i)) =>
            /\ running'
            /\ tasks'[i] = "get_info"]_vars

\* the only task, stopped before its first step (the flag is up again), has
\* connected
C33_ConnectedAfterStop ==
    \E i \in Tasks :
        /\ stop_called[i]
        /\ lastOp = [op |-> "websocket_loop", task |-> i, step |-> "connect",
                     outcome |-> "connected"]
        /\ ws[i]
        /\ running
        /\ \A j \in Tasks : j # i => tasks[j] = "none"

(***************************************************************************)
(* State changes after the unload.                                         *)
(***************************************************************************)
\* C34: after the session has been unloaded the state-change listener
\* registered at setup is no longer active: the unload leaves no listener on
\* the bus, and a state-changed event renders and pushes no icon and raises
\* no error.
C34_UnloadedIsSilent ==
    [][/\ lastOp'.op = "async_unload_entry" => listeners' = 0
       /\ (api_state = "Stopped" /\ lastOp'.op = "on_entity_state_change") =>
            (raised' = None /\ pushed' = <<>>)]_vars

\* C34, what the code does: the unload leaves every listener on the bus.
C34_ListenerStays ==
    [][lastOp'.op = "async_unload_entry" => listeners' = listeners]_vars

\* the handler has run for an unloaded entry and raised
C34_RaisedAfterUnload ==
    /\ lastOp.op = "on_entity_state_change"
    /\ api_state = "Stopped"
    /\ config_entry
    /\ raised = "KeyError"

\* C34 for the StreamDeck class: stop() calls the handle start() kept, which
\* takes the listener off the bus.
C34_StopRemovesListenerSd ==
    [][(lastOp'.op = "stop" /\ stop_listener = "live") =>
          listeners' = listeners - 1]_vars

(***************************************************************************)
(* The select's option against the stored binding.                         *)
(***************************************************************************)
\* the binding the config entry holds for button u, as select.py's setup
\* reads it: "" when there is none
PersistedBinding(u) == IF u \in DOMAIN buttons THEN buttons[u] ELSE ""

\* C35: after any sequence of assignments and config-entry removals the
\* option shown by a button's select equals the binding persisted for that
\* button in the config entry.
C35_SelectShowsBinding ==
    \A u \in DOMAIN selects : selects[u] = PersistedBinding(u)

\* C35, what holds of the code: the same for as long as the config entry
\* exists.
C35_SelectShowsBindingOfEntry ==
    config_entry => \A u \in DOMAIN selects : selects[u] = PersistedBinding(u)

\* an assignment made with the entry in place shows in the select and in
\* the entry
C35_Assigned ==
    /\ lastOp.op = "async_select_option"
    /\ config_entry
    /\ \E u \in DOMAIN selects : selects[u] \in Entities /\ selects[u] = PersistedBinding(u)

(***************************************************************************)
(* The order of icon pushes at the device.                                 *)
(***************************************************************************)
\* C36: the icon pushes for one button reach the device in the order in
\* which they were rendered: an icon the device shows for button u is never
\* replaced by one rendered earlier, so after the entity changed to s1 and
\* then to s2 and both pushes succeeded the device shows the icon of s2.
C36_PushesInRenderOrder ==
    [][\A u \in UUIDs :
        (/\ shown[u] # <<>>
         /\ shown'[u] # shown[u]
         /\ shown'[u][1].svg # shown[u][1].svg) =>
            shown'[u][1].n > shown[u][1].n]_vars

\* C36, what the code keeps: the icons of one run of the listener are
\* rendered from one state, and every POST that arrives is one that was
\* issued.
C36_ArrivalsWereIssued ==
    [][lastOp'.op = "post_arrives" =>
          /\ \E k \in 1 .. Len(posts) :
                /\ posts[k].n = lastOp'.n /\ posts[k].uuid = lastOp'.uuid
                /\ shown'[lastOp'.uuid] = <<posts[k]>>
          /\ Len(posts') = Len(posts) - 1]_vars

\* both pushes have arrived and the device shows the icon of the state
\* before the last
C36_StaleIconShown ==
    \E u \in UUIDs :
        /\ posts = <<>>
        /\ shown[u] # <<>>
        /\ button_dict[u] \in Entities
        /\ hass_states_get(button_dict[u]) # NoState
        /\ shown[u][1].n < renders
        /\ shown[u][1].svg.text_top # hass_states_get(button_dict[u]).state

(***************************************************************************)
(* Short presses and the pointer.                                          *)
(***************************************************************************)
\* C37: a short press on an up or down button never changes the
\* last-pressed pointer, whatever it holds (unset, an entity with a state,
\* an entity without one).
C37_UpDownKeepsPointer ==
    [][\A u \in ArgStrings :
        (ShortPress(lastOp', u) /\ BoundUpDown(u)) => current' = current]_vars

\* C37 happens: an up or down button was pressed with the pointer at an
\* entity that has a state, and a call was scheduled for it
C37_Witness ==
    \E u \in UUIDs :
        /\ ShortPress(lastOp, u)
        /\ BoundUpDown(u)
        /\ current \in Entities
        /\ hass_states_get(current) # NoState
        /\ issued # <<>>

\* ... and with the pointer at an entity that has no state
C37_WitnessNoState ==
    \E u \in UUIDs :
        /\ ShortPress(lastOp, u)
        /\ BoundUpDown(u)
        /\ current \in Entities
        /\ hass_states_get(current) = NoState

\* C38: a short press on a button bound to an entity whose state exists but
\* whose domain is not toggleable issues no service call yet sets the
\* last-pressed pointer to that entity; a short press on a button whose bound
\* entity has no state issues no service call and leaves the pointer
\* unchanged.
C38_PressWithoutToggle ==
    [][\A u \in ArgStrings : \A e \in Entities :
        (ShortPress(lastOp', u) /\ Bound(u, e)) =>
            /\ (states[e] # NoState /\ EntityDomain(e) \notin TOGGLEABLE_PLATFORMS) =>
                    (issued' = <<>> /\ current' = e)
            /\ states[e] = NoState =>
                    (issued' = <<>> /\ current' = current)]_vars

\* C38 happens: the button of the door sensor, which has a state and cannot
\* be toggled, was pressed: no call, and the pointer is the door sensor
C38_Witness ==
    \E u \in UUIDs :
        /\ ShortPress(lastOp, u)
        /\ Bound(u, "binary_sensor.door")
        /\ states["binary_sensor.door"] # NoState
        /\ EntityDomain("binary_sensor.door") \notin TOGGLEABLE_PLATFORMS
        /\ issued = <<>>
        /\ current = "binary_sensor.door"

\* ... and a button bound to an entity without a state was pressed with the
\* pointer at another entity
C38_WitnessNoState ==
    \E u \in UUIDs : \E e \in Entities :
        /\ ShortPress(lastOp, u)
        /\ Bound(u, e)
        /\ states[e] = NoState
        /\ current \in Entities \ {e}

(***************************************************************************)
(* Key events of the StreamDeck class.                                     *)
(***************************************************************************)
\* the handler that ran last was on_message with a decoded frame tagged tag
KeyEvent(op, tag) ==
    /\ op.op = "on_message"
    /\ op.kind = "message"
    /\ op.event = tag

\* the frame names a button whose binding is a switch or input_boolean
\* entity that has a state
BoundToSwitch(args) ==
    /\ args.shape = "str"
    /\ args.str \in DOMAIN button_dict
    /\ EntityDomain(button_dict[args.str]) \in {"switch", "input_boolean"}
    /\ hass_states_get(button_dict[args.str]) # NoState

\* C39: a keyUp frame never changes the state of the bound entity; a keyDown
\* frame flips the bound entity between on and off only when the binding
\* names a switch or input_boolean entity with an existing state, and every
\* other keyDown leaves all entities' states unchanged; neither raises.
C39_KeyEvents ==
    [][/\ KeyEvent(lastOp', "keyUp") => (states' = states /\ raised' = None)
       /\ KeyEvent(lastOp', "keyDown") =>
            /\ raised' = None
            /\ IF BoundToSwitch(lastOp'.args)
               THEN LET e == button_dict[lastOp'.args.str]
                    IN states' = [states EXCEPT ![e] = flipped(states[e])]
               ELSE states' = states]_vars

\* C39 happens: a keyDown for the button bound to the switch has turned it on
C39_Witness ==
    /\ KeyEvent(lastOp, "keyDown")
    /\ BoundToSwitch(lastOp.args)
    /\ button_dict[lastOp.args.str] = "switch.fan"
    /\ states["switch.fan"].state = "on"

\* ... a keyUp for that button has left it on
C39_WitnessKeyUp ==
    /\ KeyEvent(lastOp, "keyUp")
    /\ BoundToSwitch(lastOp.args)
    /\ states["switch.fan"].state = "on"
    /\ button_sensors[lastOp.args.str] = "off"

\* ... a keyDown for a button bound to the light, and one for a button with
\* the empty binding, have changed nothing
C39_WitnessOtherKeyDown ==
    /\ KeyEvent(lastOp, "keyDown")
    /\ lastOp.args.shape = "str"
    /\ lastOp.args.str \in DOMAIN button_dict
    /\ button_dict[lastOp.args.str] \in {"light.kitchen", ""}
    /\ button_sensors[lastOp.args.str] = "on"

====
